---- MODULE Spec2Model ----
(***************************************************************************)
(* A model of the study_langchain repository: a collection of scripts      *)
(* that check a credential, format prompts, call a hosted model, decode    *)
(* the reply and compose such steps in chains, worker pools and workflow   *)
(* graphs.  One behaviour of the model is one run of one script; the       *)
(* variable `script` names it and `pc` is its control position.            *)
(***************************************************************************)
EXTENDS Integers, Sequences, FiniteSets, TLC

(***************************************************************************)
(* Bounds of the exploration.                                              *)
(***************************************************************************)
MaxRetryCount == 3
MaxQuestions == 2
MaxIterations == 12
MaxScore == 11
MaxResults == 1
MaxExcess == 4
MaxWords == 6
MaxTextLen == 2
MaxTurns == 3
MaxSuggestions == 1
MaxLimit == 3

(***************************************************************************)
(* Program constants.                                                      *)
(***************************************************************************)
DefaultRetryCount == 3
ReviseThreshold == 7
DefaultConfidence == 7
HistoryLimit == 20
RecursionLimit == 25

VARIABLES
    script,        \* the script being run
    pc,            \* "start", "idle", "request", "graph" or "end"
    envKey,        \* TRUE iff OPENAI_API_KEY is set in the environment/.env
    keyInUse,      \* "none", "env" or "placeholder": the key model calls use
    warned,        \* a warning about the credential was printed
    calls,         \* model invocations made for the current request
    failed,        \* a model invocation of the current request has failed
    retries,       \* invocations of the current request made after a failure
    reported,      \* the failure of the current request was printed
    outcome,       \* "running", "ok", "sentinel", "raised", "exit", "done"
    retry_count,   \* execute_chain: the retries left
    attempt,       \* safe_chain_execution: the loop index
    retry0,        \* the retry_count / max_retries the requests start with
    requests,      \* requests started so far
    node,          \* graph runs: the node to execute next ("END" when over)
    visits,        \* graph runs: executions of each node in this run
    rs,            \* graph runs: the state passed between the nodes
    reply,         \* decoding: the reply (or dict) handed to the decoder
    result,        \* decoding: what the caller of the decoder received
    decodeError,   \* decoding: the decoder raised on the current reply
    texto,         \* worker pool: the text handed to the runner
    future,        \* worker pool: the state of each task's future
    value,         \* worker pool: the result each finished task has set
    collected,     \* worker pool: the results the runner has read so far
    returned,      \* worker pool: what the runner returned
    logs,          \* worker pool: the module-level list `logs`
    access,        \* worker pool: who has read or written module-level state
    mainStep,      \* worker pool: submissions or collections done by the runner
    personality,   \* chatbot_class_example: self.personality
    prompt_template, \* chatbot_class_example: self.prompt_template
    system_prompt, \* chatbot_core: PromptFactory.system_prompt
    few_shot_examples, \* chatbot_core: PromptFactory.few_shot_examples
    memory,        \* chatbot_core: MemoryManager._memory
    builds,        \* the prompts formatted so far, each with its inputs
    itin,          \* roteiro_viagem: the locals of one run of the main chain
    rt,            \* lg_router_exercise: the locals of main
    ld,            \* create_analytical_model: the .env file and what it returned
    hist,          \* MemoryManager.get_history: the last call and its result
    cfg            \* test_config: the environment of Settings and the outcome

credVars == <<envKey, keyInUse, warned>>
reqVars == <<calls, failed, retries, reported, retry_count, attempt>>
graphVars == <<node, visits, rs>>
decVars == <<reply, result, decodeError>>
\* The variables of the examples that are no chains and no graphs.
poolVars == <<texto, future, value, collected, returned, logs, access,
              mainStep>>
promptVars == <<personality, prompt_template, system_prompt,
                few_shot_examples, memory, builds>>
extraVars == <<itin, rt, ld, hist, cfg>>
notItin == <<rt, ld, hist, cfg>>
notRt == <<itin, ld, hist, cfg>>
notLd == <<itin, rt, hist, cfg>>
notHist == <<itin, rt, ld, cfg>>
notCfg == <<itin, rt, ld, hist>>
exampleVars == <<decVars, poolVars, promptVars, extraVars>>
vars == <<script, pc, envKey, keyInUse, warned, calls, failed, retries,
          reported, outcome, retry_count, attempt, retry0, requests,
          node, visits, rs, exampleVars>>

Max(a, b) == IF a >= b THEN a ELSE b

Min(a, b) == IF a <= b THEN a ELSE b

(***************************************************************************)
(* Workflow graphs, as built by the StateGraph calls of each script.       *)
(***************************************************************************)
GraphScripts == {"research_agent_notebook", "assistent_questions_project",
                 "question_assistant", "simple_debugger_practice"}

AllGraphs == GraphScripts \cup {"lg_router_exercise"}

\* create_research_agent: six nodes, two conditional edges, two back edges.
ResearchNodes == {"analyze_query", "research", "draft", "reflect", "revision",
                  "finalize"}

ResearchEdges == {<<"analyze_query", "research">>,
                  <<"research", "draft">>, <<"research", "research">>,
                  <<"draft", "reflect">>,
                  <<"reflect", "revision">>, <<"reflect", "finalize">>,
                  <<"revision", "reflect">>,
                  <<"finalize", "END">>}

ResearchBranches == {"research", "reflect"}

\* assistent_questions_project/src/graph/workflow.py
WorkflowNodes == {"enhancer", "specialist", "out_of_scope"}

WorkflowEdges == {<<"enhancer", "specialist">>, <<"enhancer", "out_of_scope">>,
                  <<"specialist", "END">>, <<"out_of_scope", "END">>}

WorkflowBranches == {"enhancer"}

\* question_assistant.py create_graph and simple_debugger_practice.py main
LinearNodes == {"reformulate", "answer"}

LinearEdges == {<<"reformulate", "answer">>, <<"answer", "END">>}

\* lg_router_exercise/graph_builder.py: a conditional entry point, two nodes
RouterNodes == {"reverse_node", "upper_node"}

RouterEdges == {<<"START", "reverse_node">>, <<"START", "upper_node">>,
                <<"reverse_node", "END">>, <<"upper_node", "END">>}

RouterBranches == {"START"}

GraphNodes(g) ==
    CASE g = "research_agent_notebook" -> ResearchNodes
      [] g = "assistent_questions_project" -> WorkflowNodes
      [] g = "lg_router_exercise" -> RouterNodes
      [] OTHER -> LinearNodes

GraphEdges(g) ==
    CASE g = "research_agent_notebook" -> ResearchEdges
      [] g = "assistent_questions_project" -> WorkflowEdges
      [] g = "lg_router_exercise" -> RouterEdges
      [] OTHER -> LinearEdges

GraphBranches(g) ==
    CASE g = "research_agent_notebook" -> ResearchBranches
      [] g = "assistent_questions_project" -> WorkflowBranches
      [] g = "lg_router_exercise" -> RouterBranches
      [] OTHER -> {}

EntryNode(g) ==
    CASE g = "research_agent_notebook" -> "analyze_query"
      [] g = "assistent_questions_project" -> "enhancer"
      [] OTHER -> "reformulate"

AllNodeNames == ResearchNodes \cup WorkflowNodes \cup LinearNodes \cup RouterNodes

Successors(g, n) == {e[2] : e \in {d \in GraphEdges(g) : d[1] = n}}

\* The nodes reachable from the nodes of S in at most k steps.
RECURSIVE ReachFrom(_, _, _)
ReachFrom(g, S, k) ==
    IF k = 0 THEN S
    ELSE LET T == S \cup UNION {Successors(g, n) : n \in S}
         IN  IF T = S THEN S ELSE ReachFrom(g, T, k - 1)

HasCycle(g) ==
    \E n \in GraphNodes(g) :
        n \in ReachFrom(g, Successors(g, n), Cardinality(GraphNodes(g)))

(***************************************************************************)
(* The scripts that are run, and the requests each of them serves.         *)
(***************************************************************************)
\* chain_evolution_examples is the file run as a script (its main);
\* chain_evolution_example_3, _4 and _5 are its functions
\* example_3_multi_step_chain, example_4_robust_chain and
\* example_5_memory_chain called by an importer, which main itself never
\* reaches.
ChainScripts == {"chain_template", "chatbot_class_example",
                 "chain_evolution_examples", "chain_evolution_example_3",
                 "chain_evolution_example_4", "chain_evolution_example_5",
                 "movie_project_rag", "exercicios_praticos"}

\* The scripts that hand the caller a record of a declared class: decoded
\* from a model reply by a pydantic class or PydanticOutputParser, built
\* from the text itself (simple_output_parsers), or, at the destination step
\* of the two itineraries, decoded by JsonOutputParser(pydantic_object=Destino).
\* advanced_output_parsers is the file run as a script: its demo builds
\* AdvancedOutputParser(use_langchain=False).  AdvancedOutputParser is the
\* class built by an importer, one of whose parse_*_safe methods is called
\* once.
DecoderScripts == {"advanced_output_parsers", "AdvancedOutputParser",
                   "simple_output_parsers",
                   "garantir_pydantic", "sentiment_analyzer",
                   "roteiro_viagem", "roteiro_viagem_v2"}

\* The scripts that run functions on a ThreadPoolExecutor.
PoolScripts == {"exemplo_simples_paralelo", "comparacao_paralelo_vs_encadeado"}

\* The scripts that load the key with ApiKeyLoader in create_analytical_model:
\* chatbot_core's own function of that name, and the one of openai_client.py,
\* which that module's main block calls.
ModelLoaderScripts == {"chatbot_core", "openai_client"}

\* The two itinerary projects: roteiro_viagem's main runs the procedural
\* run_main; roteiro_viagem_v2's main chain is one LCEL expression.  Both
\* import config, whose Settings() is built at import time.
ItineraryScripts == {"roteiro_viagem", "roteiro_viagem_v2"}

\* The string processor, whose graph calls no model.
RouterScripts == {"lg_router_exercise"}

\* The configuration test of roteiro_viagem_v2.
ConfigScripts == {"test_config"}

Scripts == ChainScripts \cup GraphScripts \cup DecoderScripts \cup PoolScripts
               \cup ModelLoaderScripts \cup ItineraryScripts
               \cup RouterScripts \cup ConfigScripts

\* The scripts whose own code tests os.getenv("OPENAI_API_KEY") and raises.
CheckingScripts == {"chain_template", "chatbot_class_example",
                    "chain_evolution_examples", "chain_evolution_example_3",
                    "chain_evolution_example_4", "chain_evolution_example_5"}

\* The scripts whose request handler takes a retry_count / max_retries.
RetryScripts == {"chain_template", "chain_evolution_example_4"}

RequestsOf(s) ==
    CASE s = "chain_template" -> 1
      [] s = "chatbot_class_example" -> 2
      [] s = "chain_evolution_examples" -> 2
      [] s = "chain_evolution_example_3" -> 1
      [] s = "chain_evolution_example_4" -> 3
      [] s = "chain_evolution_example_5" -> 4
      [] s = "research_agent_notebook" -> 2
      [] s = "question_assistant" -> 1
      [] s = "simple_debugger_practice" -> 1
      [] s = "exercicios_praticos" -> 0
      [] s = "advanced_output_parsers" -> 16
      [] s = "AdvancedOutputParser" -> 1
      [] s = "simple_output_parsers" -> 3
      [] s = "garantir_pydantic" -> 3
      [] s = "sentiment_analyzer" -> 1
      [] s \in PoolScripts -> 1
      [] s = "chatbot_core" -> MaxTurns
      [] s \in ItineraryScripts -> 1
      [] s \in RouterScripts -> 0
      [] s = "openai_client" -> 0
      [] s = "test_config" -> 0
      [] OTHER -> MaxQuestions

NoVisits == [n \in AllNodeNames |-> 0]

\* A reply is described by the class asked for, the fields it lacks, the
\* fields whose value cannot be read as the declared type, and the values of
\* the fields that carry a constraint.  Confidences are
\* counted in twentieths: 0.6, 0.8, 0.95, 1.0 and 1.5 are 12, 16, 19, 20, 30.
\* A date is the days from now to it and whether it carries a UTC offset
\* (`aware`), as the dates of a JSON reply may.
NoReply == [cls |-> "", missing |-> {}, wrongtype |-> {}, confidence |-> 0,
            days |-> 0, aware |-> FALSE, nameLen |-> 0, hours |-> 0]

NoResult == [kind |-> "none", data |-> NoReply]

\* The functions handed to a worker pool, in the order they are submitted.
TaskOrder(s) ==
    IF s = "exemplo_simples_paralelo"
    THEN <<"contar_palavras", "contar_caracteres", "converter_maiusculo">>
    ELSE <<"processar_texto", "salvar_log">>

AllTasks == {"contar_palavras", "contar_caracteres", "converter_maiusculo",
             "processar_texto", "salvar_log"}

\* Python values: an int, a str (a sequence of characters), None, or no
\* value yet.
IntVal(n) == [kind |-> "int", n |-> n, s |-> <<>>]

StrVal(t) == [kind |-> "str", n |-> 0, s |-> t]

NoneVal == [kind |-> "None", n |-> 0, s |-> <<>>]

Unset == [kind |-> "unset", n |-> 0, s |-> <<>>]

\* What a runner has returned: nothing yet, a dict (a set of key/value
\* pairs) or None.
NotReturned == [kind |-> "pending", dict |-> {}]

\* The sub-chains of an itinerary and the key of each in `sugestoes`.
SubSteps == {"restaurantes", "passeios_culturais"}

\* What a step has returned: nothing yet, a value, or an exception.
NoStepValue == [kind |-> "unset", items |-> <<>>]

\* What the main chain has returned: nothing yet, a dict, or an exception.
NoResultado == [kind |-> "pending", error |-> "", keys |-> {},
                destino_info |-> [kind |-> "none", cidade |-> "", motivo |-> FALSE],
                sugestoes |-> [k \in {} |-> <<>>]]

\* What Settings() finds when config.py is imported: whether the config
\* module can be imported at all, whether LANGCHAIN_API_KEY is set (envKey is
\* OPENAI_API_KEY), and the texts of TEMPERATURE and MAX_TOKENS.
Environments ==
    [module : BOOLEAN, langchain_api_key : BOOLEAN,
     temperature : {"unset", "0.7", "quente"},
     max_tokens : {"unset", "2048", "muitos"}]

NoEnvironment ==
    [module |-> TRUE, langchain_api_key |-> TRUE, temperature |-> "unset",
     max_tokens |-> "unset"]

\* The locals of run_main before it is called.
NoItinerary ==
    [config |-> TRUE, inputs |-> "", destino |-> [kind |-> "none", cidade |-> "", motivo |-> FALSE],
     cidade |-> "", stepLog |-> <<>>,
     stepValue |-> [k \in SubSteps |-> NoStepValue],
     resultado |-> NoResultado]

\* run_research_agent's initial_state, reduced to the fields that steer the
\* run: the length of search_results, the type of draft_response ("str" or
\* "list", the two types the content of a model reply can have), the two
\* iteration counters and the confidence.
InitialState(m) ==
    [search_results |-> 0, draft_response |-> "str", iteration_count |-> 0,
     max_iterations |-> m, confidence_score |-> 0]

Init ==
    /\ script \in Scripts
    /\ envKey \in BOOLEAN
    /\ retry0 \in (IF script \in RetryScripts THEN 0 .. MaxRetryCount ELSE {0})
    /\ pc = "start"
    /\ keyInUse = "none"
    /\ warned = FALSE
    /\ calls = 0
    /\ failed = FALSE
    /\ retries = 0
    /\ reported = FALSE
    /\ outcome = "running"
    /\ retry_count = 0
    /\ attempt = 0
    /\ requests = 0
    /\ node = "END"
    /\ visits = NoVisits
    /\ rs = InitialState(0)
    /\ reply = NoReply
    /\ result = NoResult
    /\ decodeError = FALSE
    /\ texto = <<>>
    /\ future = [t \in AllTasks |-> "unsubmitted"]
    /\ value = [t \in AllTasks |-> Unset]
    /\ collected = {}
    /\ returned = NotReturned
    /\ logs = <<>>
    /\ access = {}
    /\ mainStep = 0
    /\ personality = ""
    /\ prompt_template = <<>>
    /\ system_prompt = [role |-> "system", content |-> ""]
    /\ few_shot_examples = <<>>
    /\ memory = <<>>
    /\ builds = <<>>
    /\ \E valid \in (IF script \in ItineraryScripts THEN BOOLEAN ELSE {TRUE}) :
          /\ (script = "roteiro_viagem_v2" /\ ~envKey) => ~valid
          /\ itin = [NoItinerary EXCEPT !.config = valid]
    /\ \E langsmith \in (IF script \in RouterScripts THEN BOOLEAN ELSE {TRUE}) :
          rt = [settings |-> langsmith, case |-> 1, built |-> FALSE,
                success_count |-> 0, fail_count |-> 0,
                error |-> "", results |-> <<>>]
    /\ \E f \in (IF script \in ModelLoaderScripts THEN BOOLEAN ELSE {TRUE}) :
          ld = [env_file |-> f, returned |-> "unset"]
    /\ hist = [called |-> FALSE, limit |-> 0, before |-> <<>>,
               returned |-> <<>>, after |-> <<>>]
    /\ cfg \in (IF script \in ConfigScripts
                THEN {[env |-> e, printed |-> <<>>, returned |-> "unset"] :
                         e \in Environments}
                ELSE {[env |-> NoEnvironment, printed |-> <<>>,
                       returned |-> "unset"]})

(***************************************************************************)
(* Start-up: what each script does about the credential.                   *)
(***************************************************************************)
\* The check with its raise turned into a warning: the script carries on.
RaiseIfMissing_WarnOnly(nextPc) ==
    /\ pc' = nextPc
    /\ keyInUse' = IF envKey THEN "env" ELSE keyInUse
    /\ outcome' = outcome

\* if not os.getenv("OPENAI_API_KEY"): raise ValueError(...)
RaiseIfMissing(nextPc) ==
    IF envKey
    THEN /\ pc' = nextPc
         /\ keyInUse' = "env"
         /\ outcome' = outcome
    ELSE /\ pc' = "end"
         /\ keyInUse' = keyInUse
         /\ outcome' = "raised"

\* chain_template.main: setup_environment(), then the one call of execute_chain
setup_environment ==
    /\ script = "chain_template"
    /\ pc = "start"
    /\ RaiseIfMissing("request")
    /\ requests' = IF envKey THEN 1 ELSE requests
    /\ retry_count' = IF envKey THEN retry0 ELSE retry_count
    /\ UNCHANGED exampleVars
    /\ UNCHANGED <<script, envKey, warned, calls, failed, retries, reported,
                   attempt, retry0, graphVars>>

(***************************************************************************)
(* Prompt formatting.  A message is a record of its role and content; a    *)
(* text template is the sequence of its pieces, the placeholder being the  *)
(* piece "{user_input}".                                                   *)
(***************************************************************************)
UserMessages == {"o que e uma classe", "qual o seu nome"}
AIReplies == {"arr", "uma classe e um molde"}

SystemMessage(c) == [role |-> "system", content |-> c]
HumanMessage(c) == [role |-> "human", content |-> c]
AIMessage(c) == [role |-> "ai", content |-> c]

\* main's pirate_personality and pirate_examples
pirate_personality == "robotic pirate Captain Byte"
pirate_examples == <<HumanMessage("qual o seu nome"), AIMessage("arr")>>

\* seq[-limit:] of a Python list
SliceFromMinus(seq, limit) ==
    LET n == Len(seq)
        first == IF limit > 0 THEN Max(n - limit, 0) + 1
                 ELSE Min(0 - limit, n) + 1
    IN  SubSeq(seq, first, n)

\* MemoryManager.get_history
get_history(mem, limit) == SliceFromMinus(mem, limit)

\* PromptFactory.build_full_prompt
build_full_prompt(system, examples, current_memory, user_message) ==
    <<system>> \o examples \o current_memory \o <<HumanMessage(user_message)>>

\* Chatbot._setup_prompt_template: the f-string puts the personality and the
\* name into the text and leaves the placeholder {user_input}
setup_prompt_template(p, name) ==
    <<p, "Your name is ", name, ".", "User: ", "{user_input}", name, ": ">>

\* ChatPromptTemplate.format with the value of user_input: every placeholder
\* is replaced by the value, the other pieces stay
format_prompt(template, user_input) ==
    [i \in 1..Len(template) |->
        IF template[i] = "{user_input}" THEN user_input ELSE template[i]]

\* Chatbot.__init__ -> _setup_environment, then the identity, the template
\* and the chain of test_chatbot's bot
Chatbot_setup_environment ==
    /\ script = "chatbot_class_example"
    /\ pc = "start"
    /\ RaiseIfMissing("idle")
    /\ personality' = IF envKey THEN "programming tutor" ELSE personality
    /\ prompt_template' = IF envKey
                          THEN setup_prompt_template("programming tutor", "Tutor")
                          ELSE prompt_template
    /\ UNCHANGED <<decVars, poolVars, system_prompt, few_shot_examples,
                   memory, builds>>
    /\ UNCHANGED extraVars
    /\ UNCHANGED <<script, envKey, warned, reqVars, retry0, requests, graphVars>>

\* chain_evolution_examples: the check at import time
chain_evolution_setup ==
    /\ script \in {"chain_evolution_examples", "chain_evolution_example_3",
                    "chain_evolution_example_4", "chain_evolution_example_5"}
    /\ pc = "start"
    /\ RaiseIfMissing("idle")
    /\ UNCHANGED exampleVars
    /\ UNCHANGED <<script, envKey, warned, reqVars, retry0, requests, graphVars>>

\* exercicios_praticos.executar_exercicios: warns, then runs the five
\* exercises, which are stubs that call no model.
executar_exercicios ==
    /\ script = "exercicios_praticos"
    /\ pc = "start"
    /\ warned' = ~envKey
    /\ keyInUse' = IF envKey THEN "env" ELSE "none"
    /\ pc' = "end"
    /\ outcome' = "done"
    /\ UNCHANGED exampleVars
    /\ UNCHANGED <<script, envKey, reqVars, retry0, requests, graphVars>>

\* research_agent_notebook: os.environ["OPENAI_API_KEY"] = "sua-chave-openai-aqui"
\* then setup_llm_with_tools() and create_research_agent()
research_notebook_setup ==
    /\ script = "research_agent_notebook"
    /\ pc = "start"
    /\ keyInUse' = "placeholder"
    /\ pc' = "idle"
    /\ UNCHANGED exampleVars
    /\ UNCHANGED <<script, envKey, warned, reqVars, outcome, retry0, requests,
                   graphVars>>

\* The start of the other graph scripts: load_dotenv() and no test of the
\* key.  question_assistant's main calls setup_llm inside its try block:
\* ChatOpenAI(...) is built there, the client library refuses to build a
\* client without a key, setup_llm's handler (LangChainError) lets that pass
\* and main's `except Exception` prints the error and calls sys.exit(1).
\* simple_debugger_practice builds its client inside each node and
\* assistent_questions_project loads its settings, which require the key,
\* inside its nodes.
graph_script_setup ==
    /\ script \in GraphScripts \ {"research_agent_notebook"}
    /\ pc = "start"
    /\ keyInUse' = IF envKey THEN "env" ELSE "none"
    /\ IF script = "question_assistant" /\ ~envKey
       THEN reported' = TRUE /\ outcome' = "exit" /\ pc' = "end"
       ELSE pc' = "idle" /\ UNCHANGED <<reported, outcome>>
    /\ UNCHANGED exampleVars
    /\ UNCHANGED <<script, envKey, warned, calls, failed, retries,
                   retry_count, attempt, retry0, requests, graphVars>>

\* movie_project_rag.main up to its first input(): load_dotenv(), load_catalog()
\* (a missing or undecodable file, or an empty list of films, is "empty":
\* main logs and returns; a file whose top level is no object, or whose
\* entries are no valid Filme, is "malformed": load_catalog catches only
\* FileNotFoundError and JSONDecodeError, so the exception leaves main),
\* then create_vector_store(), which builds OpenAIEmbeddings (without a key
\* the client library refuses to build the client, and nothing in main
\* catches that) and embeds the documents through the hosted API, then
\* create_rag_chain().
movie_main_setup ==
    /\ script = "movie_project_rag"
    /\ pc = "start"
    /\ keyInUse' = IF envKey THEN "env" ELSE "none"
    /\ \E catalog \in {"filmes", "empty", "malformed"}, ok \in BOOLEAN :
          CASE catalog = "empty" ->
                   /\ pc' = "end" /\ outcome' = "exit"
                   /\ calls' = calls /\ failed' = failed
            [] catalog = "malformed" ->
                   /\ pc' = "end" /\ outcome' = "raised"
                   /\ calls' = calls /\ failed' = failed
            [] catalog = "filmes" /\ ~envKey ->
                   /\ pc' = "end" /\ outcome' = "raised"
                   /\ calls' = calls /\ failed' = failed
            [] OTHER ->
                   /\ calls' = 1
                   /\ failed' = ~ok
                   /\ pc' = IF ok THEN "idle" ELSE "end"
                   /\ outcome' = IF ok THEN outcome ELSE "raised"
    /\ UNCHANGED exampleVars
    /\ UNCHANGED <<script, envKey, warned, retries, reported, retry_count,
                   attempt, retry0, requests, graphVars>>

(***************************************************************************)
(* Requests: one model call, or a bounded series of attempts.              *)
(***************************************************************************)
\* execute_chain whose recursive call passes retry_count on unchanged.
execute_chain_NoDecrement ==
    /\ script = "chain_template"
    /\ pc = "request"
    /\ calls' = calls + 1
    /\ retries' = IF failed THEN retries + 1 ELSE retries
    /\ \E ok \in BOOLEAN :
          IF ok
          THEN /\ outcome' = "ok" /\ pc' = "idle"
               /\ UNCHANGED <<failed, reported, retry_count>>
          ELSE /\ failed' = TRUE
               /\ reported' = TRUE
               /\ IF retry_count > 0
                  THEN UNCHANGED <<retry_count, outcome, pc>>
                  ELSE /\ outcome' = "raised" /\ pc' = "end"
                       /\ UNCHANGED retry_count
    /\ UNCHANGED exampleVars
    /\ UNCHANGED <<script, credVars, attempt, retry0, requests, graphVars>>

\* chain_template.execute_chain: one activation of the function.  A failure is
\* printed; with retries left the function calls itself with retry_count - 1,
\* otherwise it re-raises and the exception leaves main.
execute_chain ==
    /\ script = "chain_template"
    /\ pc = "request"
    /\ calls' = calls + 1
    /\ retries' = IF failed THEN retries + 1 ELSE retries
    /\ \E ok \in BOOLEAN :
          IF ok
          THEN /\ outcome' = "ok" /\ pc' = "idle"
               /\ UNCHANGED <<failed, reported, retry_count>>
          ELSE /\ failed' = TRUE
               /\ reported' = TRUE
               /\ IF retry_count > 0
                  THEN /\ retry_count' = retry_count - 1
                       /\ UNCHANGED <<outcome, pc>>
                  ELSE /\ outcome' = "raised" /\ pc' = "end"
                       /\ UNCHANGED retry_count
    /\ UNCHANGED exampleVars
    /\ UNCHANGED <<script, credVars, attempt, retry0, requests, graphVars>>

\* main's first example: chain.invoke outside any try, so a failing call
\* leaves main as an exception; otherwise main goes on to example 2.
example_1_basic_chain ==
    /\ script = "chain_evolution_examples"
    /\ pc = "idle"
    /\ requests = 0
    /\ requests' = 1
    /\ calls' = 1
    /\ \E ok \in BOOLEAN :
          /\ failed' = ~ok
          /\ pc' = IF ok THEN "example_2" ELSE "end"
          /\ outcome' = IF ok THEN "running" ELSE "raised"
    /\ UNCHANGED exampleVars
    /\ UNCHANGED <<script, credVars, retries, reported, retry_count, attempt,
                   retry0, graphVars>>

\* main's second example: chain.invoke outside any try; JsonOutputParser
\* returns a dict (or raises on a reply that is no JSON), and the next line
\* reads response.definition, which a dict does not have: AttributeError.
\* Every path leaves main as an exception, before examples 3, 4 and 5.
example_2_structured_chain ==
    /\ script = "chain_evolution_examples"
    /\ pc = "example_2"
    /\ requests' = requests + 1
    /\ calls' = 1
    /\ \E ok \in BOOLEAN : failed' = ~ok
    /\ pc' = "end"
    /\ outcome' = "raised"
    /\ UNCHANGED exampleVars
    /\ UNCHANGED <<script, credVars, retries, reported, retry_count, attempt,
                   retry0, graphVars>>

\* example_3_multi_step_chain: one chain.invoke, outside any try, of a chain
\* with three model steps in a row (analysis, examples, synthesis); the
\* failure of a step leaves the function before the next one is invoked.
example_3_multi_step_chain ==
    /\ script = "chain_evolution_example_3"
    /\ pc = "idle"
    /\ requests < RequestsOf(script)
    /\ requests' = requests + 1
    /\ \E steps \in 1 .. 3, ok \in BOOLEAN :
          /\ ok => steps = 3
          /\ calls' = steps
          /\ failed' = ~ok
          /\ pc' = IF ok THEN "idle" ELSE "end"
          /\ outcome' = IF ok THEN "ok" ELSE "raised"
    /\ UNCHANGED exampleVars
    /\ UNCHANGED <<script, credVars, retries, reported, retry_count, attempt,
                   retry0, graphVars>>

\* example_5_memory_chain: one turn of the loop over the four
\* conversation_steps; chain.invoke is outside any try.
example_5_memory_chain ==
    /\ script = "chain_evolution_example_5"
    /\ pc = "idle"
    /\ requests < RequestsOf(script)
    /\ requests' = requests + 1
    /\ calls' = 1
    /\ \E ok \in BOOLEAN :
          /\ failed' = ~ok
          /\ pc' = IF ok THEN "idle" ELSE "end"
          /\ outcome' = IF ok THEN "ok" ELSE "raised"
    /\ UNCHANGED exampleVars
    /\ UNCHANGED <<script, credVars, retries, reported, retry_count, attempt,
                   retry0, graphVars>>

\* example_4_robust_chain: the next concept of test_concepts is handed to
\* safe_chain_execution (all three pass validate_concept).
example_4_robust_chain ==
    /\ script = "chain_evolution_example_4"
    /\ pc = "idle"
    /\ requests < RequestsOf(script)
    /\ requests' = requests + 1
    /\ pc' = "request"
    /\ calls' = 0 /\ failed' = FALSE /\ retries' = 0 /\ reported' = FALSE
    /\ attempt' = 0
    /\ outcome' = "running"
    /\ UNCHANGED exampleVars
    /\ UNCHANGED <<script, credVars, retry_count, retry0, graphVars>>

\* safe_chain_execution: one iteration of `for attempt in range(max_retries)`,
\* or the fall-through return when the range is empty.  The caller prints the
\* returned string.
safe_chain_execution ==
    /\ script = "chain_evolution_example_4"
    /\ pc = "request"
    /\ IF attempt < retry0
       THEN /\ calls' = calls + 1
            /\ retries' = IF failed THEN retries + 1 ELSE retries
            /\ \E ok \in BOOLEAN :
                  IF ok
                  THEN /\ outcome' = "ok" /\ pc' = "idle"
                       /\ UNCHANGED <<failed, reported, attempt>>
                  ELSE /\ failed' = TRUE
                       /\ reported' = TRUE
                       /\ IF attempt = retry0 - 1
                          THEN /\ outcome' = "sentinel" /\ pc' = "idle"
                               /\ UNCHANGED attempt
                          ELSE /\ attempt' = attempt + 1
                               /\ UNCHANGED <<outcome, pc>>
       ELSE /\ outcome' = "sentinel" /\ pc' = "idle"
            /\ UNCHANGED <<calls, retries, failed, reported, attempt>>
    /\ UNCHANGED exampleVars
    /\ UNCHANGED <<script, credVars, retry_count, retry0, requests, graphVars>>

\* Chatbot.chat without its try block: the exception leaves test_chatbot.
Chatbot_chat_NoTry ==
    /\ script = "chatbot_class_example"
    /\ pc = "idle"
    /\ requests < RequestsOf(script)
    /\ requests' = requests + 1
    /\ calls' = 1
    /\ retries' = 0
    /\ reported' = FALSE
    /\ \E message \in UserMessages, ok \in BOOLEAN :
          /\ builds' = Append(builds,
                 [inputs |-> [template |-> prompt_template, message |-> message],
                  prompt |-> format_prompt(prompt_template, message)])
          /\ failed' = ~ok
          /\ outcome' = IF ok THEN "ok" ELSE "raised"
          /\ pc' = IF ok THEN "idle" ELSE "end"
    /\ UNCHANGED <<decVars, poolVars, personality, prompt_template,
                   system_prompt, few_shot_examples, memory>>
    /\ UNCHANGED extraVars
    /\ UNCHANGED <<script, credVars, retry_count, attempt, retry0, graphVars>>

\* Chatbot.chat as test_chatbot calls it: the chain formats the prompt from
\* the template and the message and invokes the model once; a failure is
\* turned into the returned text "Erro ao processar mensagem: ...", which is
\* printed.  test_chatbot chats, updates the personality and chats again.
Chatbot_chat ==
    /\ script = "chatbot_class_example"
    /\ \/ pc = "idle" /\ requests = 0
       \/ pc = "updated"
    /\ requests < RequestsOf(script)
    /\ requests' = requests + 1
    /\ calls' = 1
    /\ retries' = 0
    /\ pc' = "idle"
    /\ \E message \in UserMessages, ok \in BOOLEAN :
          /\ builds' = Append(builds,
                 [inputs |-> [template |-> prompt_template, message |-> message],
                  prompt |-> format_prompt(prompt_template, message)])
          /\ failed' = ~ok
          /\ reported' = ~ok
          /\ outcome' = IF ok THEN "ok" ELSE "sentinel"
    /\ UNCHANGED <<decVars, poolVars, personality, prompt_template,
                   system_prompt, few_shot_examples, memory>>
    /\ UNCHANGED extraVars
    /\ UNCHANGED <<script, credVars, retry_count, attempt, retry0, graphVars>>

\* Chatbot.update_personality: the new personality, then the template and
\* the chain rebuilt from it
update_personality ==
    /\ script = "chatbot_class_example"
    /\ pc = "idle"
    /\ requests = 1
    /\ pc' = "updated"
    /\ \E new_personality \in {"programming tutor", "funny comedian"} :
          /\ personality' = new_personality
          /\ prompt_template' = setup_prompt_template(new_personality, "Tutor")
    /\ UNCHANGED <<decVars, poolVars, system_prompt, few_shot_examples,
                   memory, builds>>
    /\ UNCHANGED extraVars
    /\ UNCHANGED <<script, credVars, reqVars, outcome, retry0, requests,
                   graphVars>>

\* ApiKeyLoader(env_path): ValueError when there is no .env file (none found
\* in the directory or its parents, or none at the path that was given).
ApiKeyLoader(env_file) == IF env_file THEN "loader" ELSE "ValueError"

\* ApiKeyLoader.get_openai_key: load_dotenv, then ApiKeyNotFoundError when
\* OPENAI_API_KEY is unset or empty.
get_openai_key(key) == IF key THEN "key" ELSE "ApiKeyNotFoundError"

\* The body of the try block of create_analytical_model: the loader, the key,
\* the factory and its analytical model; an exception class when one is raised.
LoadModel(env_file, key) ==
    IF ApiKeyLoader(env_file) # "loader" THEN ApiKeyLoader(env_file)
    ELSE IF get_openai_key(key) # "key" THEN get_openai_key(key)
    ELSE "ChatOpenAI"

\* create_analytical_model of openai_client.py:
\* except (ValueError, ApiKeyNotFoundError) -> None
create_analytical_model(env_file, key) ==
    IF LoadModel(env_file, key) \in {"ValueError", "ApiKeyNotFoundError"}
    THEN "None"
    ELSE LoadModel(env_file, key)

\* create_analytical_model of chatbot_core.py: except ValueError -> None.
\* ApiKeyNotFoundError derives from Exception and passes the handler.
core_create_analytical_model(env_file, key) ==
    IF LoadModel(env_file, key) = "ValueError"
    THEN "None"
    ELSE LoadModel(env_file, key)

\* chatbot_core.main up to the chat loop: the model is loaded (main returns
\* when it is None, and an exception of the loader ends the script); then the
\* memory is empty and the prompt factory holds the pirate personality and a
\* copy of the examples.
core_main_setup ==
    /\ script = "chatbot_core"
    /\ pc = "start"
    /\ LET llm == core_create_analytical_model(ld.env_file, envKey)
       IN  /\ ld' = [ld EXCEPT !.returned = llm]
           /\ CASE llm = "ChatOpenAI" ->
                     /\ keyInUse' = "env"
                     /\ pc' = "idle"
                     /\ memory' = <<>>
                     /\ system_prompt' = SystemMessage(pirate_personality)
                     /\ few_shot_examples' = pirate_examples
                     /\ UNCHANGED outcome
                [] llm = "None" ->
                     /\ pc' = "end"
                     /\ outcome' = "done"
                     /\ UNCHANGED <<keyInUse, memory, system_prompt,
                                    few_shot_examples>>
                [] OTHER ->
                     /\ pc' = "end"
                     /\ outcome' = "raised"
                     /\ UNCHANGED <<keyInUse, memory, system_prompt,
                                    few_shot_examples>>
    /\ UNCHANGED <<decVars, poolVars, personality, prompt_template, builds>>
    /\ UNCHANGED notLd
    /\ UNCHANGED <<script, envKey, warned, reqVars, retry0, requests,
                   graphVars>>

\* The main block of openai_client.py: example_usage, which catches both
\* exceptions of the loader, then create_analytical_model.
openai_client_main ==
    /\ script = "openai_client"
    /\ pc = "start"
    /\ ld' = [ld EXCEPT !.returned = create_analytical_model(ld.env_file, envKey)]
    /\ keyInUse' = (IF ld'.returned = "ChatOpenAI" THEN "env" ELSE keyInUse)
    /\ pc' = "end"
    /\ outcome' = "done"
    /\ UNCHANGED <<decVars, poolVars, promptVars>>
    /\ UNCHANGED notLd
    /\ UNCHANGED <<script, envKey, warned, reqVars, retry0, requests,
                   graphVars>>

\* Chatbot.chat whose prompt is built by extending the factory's own list
\* of examples with the history.
core_Chatbot_chat_Aliased ==
    /\ script = "chatbot_core"
    /\ pc = "idle"
    /\ requests < RequestsOf(script)
    /\ requests' = requests + 1
    /\ calls' = 1
    /\ retries' = 0
    /\ \E user_message \in UserMessages, ok \in BOOLEAN, r \in AIReplies :
          LET current_history == get_history(memory, HistoryLimit)
              full_prompt == build_full_prompt(system_prompt, few_shot_examples,
                                               current_history, user_message)
          IN  /\ builds' = Append(builds,
                     [inputs |-> [template |-> <<SystemMessage(pirate_personality),
                                                 pirate_examples>>,
                                  history |-> memory,
                                  message |-> user_message],
                      prompt |-> full_prompt])
              /\ few_shot_examples' = few_shot_examples \o current_history
              /\ failed' = ~ok
              /\ reported' = ~ok
              /\ outcome' = IF ok THEN "ok" ELSE "sentinel"
              /\ memory' = IF ok
                           THEN memory \o <<HumanMessage(user_message),
                                            AIMessage(r)>>
                           ELSE memory
    /\ UNCHANGED <<decVars, poolVars, personality, prompt_template,
                   system_prompt>>
    /\ UNCHANGED extraVars
    /\ UNCHANGED <<script, pc, credVars, retry_count, attempt, retry0,
                   graphVars>>

\* One turn of chatbot_core.main's loop with a message: Chatbot.chat reads
\* the history, builds the prompt and invokes the model; on success the
\* message and the reply are added to the memory; on failure the exception
\* leaves chat before the memory is touched and main prints
\* "Erro ao processar a mensagem".
core_Chatbot_chat ==
    /\ script = "chatbot_core"
    /\ pc = "idle"
    /\ requests < RequestsOf(script)
    /\ requests' = requests + 1
    /\ calls' = 1
    /\ retries' = 0
    /\ \E user_message \in UserMessages, ok \in BOOLEAN, r \in AIReplies :
          LET current_history == get_history(memory, HistoryLimit)
              full_prompt == build_full_prompt(system_prompt, few_shot_examples,
                                               current_history, user_message)
          IN  /\ builds' = Append(builds,
                     [inputs |-> [template |-> <<SystemMessage(pirate_personality),
                                                 pirate_examples>>,
                                  history |-> memory,
                                  message |-> user_message],
                      prompt |-> full_prompt])
              /\ failed' = ~ok
              /\ reported' = ~ok
              /\ outcome' = IF ok THEN "ok" ELSE "sentinel"
              /\ memory' = IF ok
                           THEN memory \o <<HumanMessage(user_message),
                                            AIMessage(r)>>
                           ELSE memory
    /\ UNCHANGED <<decVars, poolVars, personality, prompt_template,
                   system_prompt, few_shot_examples>>
    /\ UNCHANGED extraVars
    /\ UNCHANGED <<script, pc, credVars, retry_count, attempt, retry0,
                   graphVars>>

\* MemoryManager.get_history(limit) called on the chatbot's memory as it is
\* between two turns; the slice is a new list and _memory is left as it was.
MemoryManager_get_history ==
    /\ script = "chatbot_core"
    /\ pc = "idle"
    /\ \E limit \in (0 - 1) .. MaxLimit :
          hist' = [called |-> TRUE, limit |-> limit, before |-> memory,
                   returned |-> get_history(memory, limit), after |-> memory]
    /\ UNCHANGED <<decVars, poolVars, promptVars>>
    /\ UNCHANGED notHist
    /\ UNCHANGED <<script, pc, credVars, reqVars, outcome, retry0, requests,
                   graphVars>>

\* An import that ends in an exception of class e instead of a settings object.
Raises(e) ==
    [error |-> e, langchain_project |-> "", model_name |-> "",
     temperature |-> "", max_tokens |-> ""]

\* Settings(): both keys are required, temperature must parse as a float and
\* max_tokens as an int; the other fields take their defaults.
Settings(key, env) ==
    IF \/ ~key
       \/ ~env.langchain_api_key
       \/ env.temperature \notin {"unset", "0.7"}
       \/ env.max_tokens \notin {"unset", "2048"}
    THEN Raises("ValidationError")
    ELSE [error |-> "",
          langchain_project |-> "roteiro_viagem_v2",
          model_name |-> "gpt-4.1",
          temperature |-> IF env.temperature = "unset" THEN "0.3"
                          ELSE env.temperature,
          max_tokens |-> IF env.max_tokens = "unset" THEN "1024"
                         ELSE env.max_tokens]

\* from config import settings: the module-level settings = Settings()
import_settings(key, env) ==
    IF env.module THEN Settings(key, env) ELSE Raises("ImportError")

\* test_config without its except clause: the exception leaves the function.
test_config_NoHandler(key, env) ==
    LET settings == import_settings(key, env)
    IN  IF settings.error # ""
        THEN [printed |-> <<>>, returned |-> settings.error]
        ELSE [printed |-> <<"importada", settings.langchain_project,
                            settings.model_name, settings.temperature,
                            settings.max_tokens>>,
              returned |-> "True"]

\* test_config: the import and the four prints inside try; except Exception
\* prints the error and returns False.
test_config(key, env) ==
    LET settings == import_settings(key, env)
    IN  IF settings.error # ""
        THEN [printed |-> <<"erro", settings.error>>, returned |-> "False"]
        ELSE [printed |-> <<"importada", settings.langchain_project,
                            settings.model_name, settings.temperature,
                            settings.max_tokens>>,
              returned |-> "True"]

\* main of test_config.py: test_config(), then sys.exit(0).
test_config_main ==
    /\ script = "test_config"
    /\ pc = "start"
    /\ LET r == test_config(envKey, cfg.env)
       IN  /\ cfg' = [cfg EXCEPT !.printed = r.printed, !.returned = r.returned]
           /\ outcome' = IF r.returned \in {"True", "False"} THEN "exit"
                         ELSE "raised"
    /\ pc' = "end"
    /\ UNCHANGED <<decVars, poolVars, promptVars>>
    /\ UNCHANGED notCfg
    /\ UNCHANGED <<script, credVars, reqVars, retry0, requests, graphVars>>

\* movie_project_rag.main: one turn of the while loop with a question;
\* chain.invoke(question) is not inside any try.  The chain first runs the
\* retriever, which embeds the question through the hosted API, and then
\* the chat model: two hosted requests, the second only after the first.
movie_main_question ==
    /\ script = "movie_project_rag"
    /\ pc = "idle"
    /\ requests < RequestsOf(script)
    /\ requests' = requests + 1
    /\ retries' = 0
    /\ reported' = FALSE
    /\ \E embedded \in BOOLEAN, ok \in BOOLEAN :
          /\ embedded \/ ~ok
          /\ calls' = IF embedded THEN 2 ELSE 1
          /\ failed' = ~ok
          /\ outcome' = IF ok THEN "ok" ELSE "raised"
          /\ pc' = IF ok THEN "idle" ELSE "end"
    /\ UNCHANGED exampleVars
    /\ UNCHANGED <<script, credVars, retry_count, attempt, retry0, graphVars>>

\* The script has served its requests (or, in the scripts that read their
\* requests from the keyboard, the user typed 'sair').
script_end ==
    /\ pc = "idle"
    /\ script # "advanced_output_parsers"
    /\ \/ requests = RequestsOf(script)
       \/ script \in {"movie_project_rag", "assistent_questions_project",
                      "chatbot_core"}
    /\ pc' = "end"
    /\ UNCHANGED exampleVars
    /\ UNCHANGED <<script, credVars, reqVars, outcome, retry0, requests,
                   graphVars>>

(***************************************************************************)
(* Workflow graph runs.                                                    *)
(***************************************************************************)
\* The target of the one fixed edge that leaves node n.
FixedNext(g, n) == CHOOSE m \in Successors(g, n) : TRUE

\* should_continue_research: "draft" once there are search results
should_continue_research(st) ==
    IF st.search_results > 0 THEN "draft" ELSE "research"

\* should_revise without the test of the iteration count.
should_revise_NoLimit(st) ==
    IF st.confidence_score < ReviseThreshold THEN "revision" ELSE "finalize"

\* should_revise: revise while confidence < 7.0 and iterations < max_iterations
should_revise(st) ==
    IF st.confidence_score < ReviseThreshold
       /\ st.iteration_count < st.max_iterations
    THEN "revision"
    ELSE "finalize"

\* run_research_agent(question, max_iterations): builds the initial state and
\* invokes the graph inside a try block.
run_research_agent ==
    /\ script = "research_agent_notebook"
    /\ pc = "idle"
    /\ requests < RequestsOf(script)
    /\ requests' = requests + 1
    /\ \E m \in 0 .. MaxIterations : rs' = InitialState(m)
    /\ node' = EntryNode(script)
    /\ visits' = NoVisits
    /\ pc' = "graph"
    /\ calls' = 0 /\ failed' = FALSE /\ retries' = 0 /\ reported' = FALSE
    /\ outcome' = "running"
    /\ UNCHANGED exampleVars
    /\ UNCHANGED <<script, credVars, retry_count, attempt, retry0>>

\* The main functions of the other graph scripts invoke (or stream) the
\* compiled graph on one question.
graph_invoke ==
    /\ script \in GraphScripts \ {"research_agent_notebook"}
    /\ pc = "idle"
    /\ requests < RequestsOf(script)
    /\ requests' = requests + 1
    /\ rs' = InitialState(0)
    /\ node' = EntryNode(script)
    /\ visits' = NoVisits
    /\ pc' = "graph"
    /\ calls' = 0 /\ failed' = FALSE /\ retries' = 0 /\ reported' = FALSE
    /\ outcome' = "running"
    /\ UNCHANGED exampleVars
    /\ UNCHANGED <<script, credVars, retry_count, attempt, retry0>>

\* What the caller of the graph does with an exception raised by a node:
\* run_research_agent prints it and returns {"error": ...}; question_assistant
\* prints it and calls sys.exit(1); the other two mains have no handler.
DriverOnFailure ==
    CASE script = "research_agent_notebook" ->
            /\ reported' = TRUE /\ outcome' = "sentinel" /\ pc' = "idle"
      [] script = "question_assistant" ->
            /\ reported' = TRUE /\ outcome' = "exit" /\ pc' = "end"
      [] OTHER ->
            /\ reported' = reported /\ outcome' = "raised" /\ pc' = "end"

\* The supersteps research_agent.invoke (or the invoke of another compiled
\* graph) has executed in the current run: one per execution of a node.
Supersteps ==
    LET RECURSIVE Sum(_)
        Sum(S) == IF S = {} THEN 0
                  ELSE LET n == CHOOSE m \in S : TRUE
                       IN  visits[n] + Sum(S \ {n})
    IN  Sum(AllNodeNames)

\* One superstep of a compiled graph whose next node is n.  No invoke in the
\* repository passes a recursion_limit, so the engine's default applies: a
\* run that RecursionLimit supersteps have not brought to END is ended with
\* GraphRecursionError (node becomes "out_of_steps"), which the caller of the
\* graph handles as it handles an exception of a node.  The engine tests the
\* limit either before it runs the next superstep or after it (`late`), so
\* that superstep may still execute.  When n executes, `modelCalls`
\* invocations of the model are made, and res is "ok" (the state becomes st
\* and the run moves to nxt), "failed" (the last invocation raised) or
\* "raised" (the node itself raised, every invocation it made having
\* succeeded).
GraphStep(n, modelCalls, res, nxt, st) ==
    /\ pc = "graph"
    /\ node = n
    /\ \E late \in BOOLEAN :
          /\ late => Supersteps >= RecursionLimit
          /\ IF Supersteps >= RecursionLimit /\ ~late
             THEN /\ node' = "out_of_steps"
                  /\ DriverOnFailure
                  /\ UNCHANGED <<visits, calls, failed, rs>>
             ELSE /\ visits' = [visits EXCEPT ![n] = @ + 1]
                  /\ calls' = calls + modelCalls
                  /\ IF res = "ok" /\ late
                     THEN /\ node' = "out_of_steps"
                          /\ rs' = st
                          /\ DriverOnFailure
                          /\ UNCHANGED failed
                     ELSE IF res = "ok"
                     THEN /\ node' = nxt
                          /\ rs' = st
                          /\ UNCHANGED <<failed, reported>>
                          /\ IF nxt = "END"
                             THEN outcome' = "ok" /\ pc' = "idle"
                             ELSE UNCHANGED <<outcome, pc>>
                     ELSE /\ failed' = (res = "failed")
                          /\ DriverOnFailure
                          /\ UNCHANGED <<node, rs>>
    /\ UNCHANGED exampleVars
    /\ UNCHANGED <<script, credVars, retries, retry_count, attempt, retry0,
                   requests>>

query_analyzer_node ==
    /\ script = "research_agent_notebook"
    /\ \E res \in {"ok", "failed"} :
          GraphStep("analyze_query", 1, res, FixedNext(script, "analyze_query"), rs)

\* research_node: the tool results (or the one "no tool was used" entry)
\* become search_results, so the list is never empty afterwards.
research_node ==
    /\ script = "research_agent_notebook"
    /\ \E res \in {"ok", "failed"}, k \in 1 .. MaxResults :
          LET st == [rs EXCEPT !.search_results = k]
          IN  GraphStep("research", 1, res, should_continue_research(st), st)

\* draft_generator_node: draft_response becomes the content of the reply, a
\* str or a list; iteration_count becomes 1.
draft_generator_node ==
    /\ script = "research_agent_notebook"
    /\ \E res \in {"ok", "failed"}, content \in {"str", "list"} :
          LET st == [rs EXCEPT !.draft_response = content,
                               !.iteration_count = 1]
          IN  /\ res = "ok" \/ content = "str"
              /\ GraphStep("draft", 1, res, FixedNext(script, "draft"), st)

\* reflection_node: after the model has answered, content.lower() raises
\* AttributeError when the content of the reply is a list.  Otherwise the
\* first number after "nota", "score" or "pontuação" in the reply is the
\* confidence; 7.0 when the reply has none (found = FALSE).
reflection_node ==
    /\ script = "research_agent_notebook"
    /\ \E ok \in BOOLEAN, content \in {"str", "list"}, found \in BOOLEAN,
          score \in {0, ReviseThreshold - 1, ReviseThreshold, MaxScore} :
          LET c == IF found THEN score ELSE DefaultConfidence
              st == [rs EXCEPT !.confidence_score = c]
          IN  /\ found \/ score = 0
              /\ (ok /\ content = "str") \/ ~found
              /\ ok \/ content = "str"
              /\ GraphStep("reflect", 1,
                           IF ~ok THEN "failed"
                           ELSE IF content # "str" THEN "raised" ELSE "ok",
                           should_revise(st), st)

\* revision_node: draft_response becomes the content of the reply and
\* iteration_count grows by one.
revision_node ==
    /\ script = "research_agent_notebook"
    /\ \E res \in {"ok", "failed"}, content \in {"str", "list"} :
          LET st == [rs EXCEPT !.draft_response = content,
                               !.iteration_count = @ + 1]
          IN  /\ res = "ok" \/ content = "str"
              /\ GraphStep("revision", 1, res, FixedNext(script, "revision"), st)

\* finalization_node calls no model: final_response + metadata raises
\* TypeError when draft_response is not a str.
finalization_node ==
    /\ script = "research_agent_notebook"
    /\ GraphStep("finalize", 0,
                 IF rs.draft_response = "str" THEN "ok" ELSE "raised",
                 FixedNext(script, "finalize"), rs)

\* enhance_question_node, then the conditional edge boundary_check_node, which
\* asks the model whether the question is in scope: two model calls.  The node
\* starts with get_llm_factory(), whose load_settings() raises ValueError when
\* the required openai_api_key is missing.
enhance_question_node ==
    /\ script = "assistent_questions_project"
    /\ IF keyInUse = "none"
       THEN GraphStep("enhancer", 0, "raised", "END", rs)
       ELSE \E enhanced \in BOOLEAN, res \in {"ok", "failed"}, in_scope \in BOOLEAN :
               LET nxt == IF in_scope THEN "specialist" ELSE "out_of_scope"
               IN  /\ enhanced \/ res = "failed"
                   /\ nxt \in Successors(script, "enhancer")
                   /\ GraphStep("enhancer", IF enhanced THEN 2 ELSE 1,
                                res, nxt, rs)

specialist_node ==
    /\ script = "assistent_questions_project"
    /\ \E res \in {"ok", "failed"} :
          GraphStep("specialist", 1, res, FixedNext(script, "specialist"), rs)

out_of_scope_node ==
    /\ script = "assistent_questions_project"
    /\ GraphStep("out_of_scope", 0, "ok", FixedNext(script, "out_of_scope"), rs)

\* question_assistant.py and simple_debugger_practice.py.  The content of
\* the reply of llm.invoke is a str or a list: question_assistant's nodes
\* raise TypeError when it is not a str, simple_debugger_practice's nodes
\* store it as it is.  The nodes of simple_debugger_practice first build
\* ChatOpenAI(...), which without a key raises before any call is made.
reformulate_node ==
    /\ script \in {"question_assistant", "simple_debugger_practice"}
    /\ IF keyInUse = "none"
       THEN GraphStep("reformulate", 0, "raised", "END", rs)
       ELSE \E ok \in BOOLEAN, content \in {"str", "list"} :
               GraphStep("reformulate", 1,
                         IF ~ok THEN "failed"
                         ELSE IF script = "question_assistant"
                                 /\ content # "str"
                         THEN "raised" ELSE "ok",
                         FixedNext(script, "reformulate"), rs)

answer_node ==
    /\ script \in {"question_assistant", "simple_debugger_practice"}
    /\ \E ok \in BOOLEAN, content \in {"str", "list"} :
          GraphStep("answer", 1,
                    IF ~ok THEN "failed"
                    ELSE IF script = "question_assistant" /\ content # "str"
                    THEN "raised" ELSE "ok",
                    FixedNext(script, "answer"), rs)

(***************************************************************************)
(* Decoding a reply into a typed record.                                   *)
(***************************************************************************)
\* The fields of each model class a reply is decoded into.
FieldsOf(cls) ==
    CASE cls = "EventInfo" ->
             {"event_name", "event_date", "duration_hours", "is_recurring"}
      [] cls = "SentimentAnalysis" ->
             {"text", "is_positive", "is_negative", "is_neutral",
              "contains_urgency", "confidence_score"}
      [] cls = "AppointmentAnalysis" ->
             {"appointment_date", "is_urgent", "is_important",
              "requires_preparation", "is_online", "duration_minutes"}
      [] cls = "TaskInfo" ->
             {"task_name", "due_date", "is_completed", "is_high_priority",
              "estimated_hours"}
      [] cls = "AnaliseTexto" ->
             {"sentimento", "confianca", "palavras_chave", "resumo"}
      [] cls = "Destino" -> {"cidade", "motivo"}
      [] OTHER -> {}

\* The fields declared with `= Field(default=None, ...)`.
OptionalFields == {"duration_hours", "duration_minutes", "estimated_hours"}

\* The replies to a request for an instance of cls: each field is there with
\* a value of its type, is missing, or holds a value of another type; the
\* confidence (in twentieths, from MaxExcess below 0 to MaxExcess above 1),
\* the days from now to the date and whether it carries a UTC offset, the
\* length of task_name and the estimated hours are the values of the fields
\* that are there (0 and FALSE when the class has no such field or the reply
\* has no usable value for it).
Replies(cls) ==
    UNION {
        LET has(f) == f \in FieldsOf(cls) /\ st[f] = "ok"
        IN  {[cls |-> cls,
              missing |-> {f \in FieldsOf(cls) : st[f] = "missing"},
              wrongtype |-> {f \in FieldsOf(cls) : st[f] = "wrongtype"},
              confidence |-> c, days |-> d, aware |-> a, nameLen |-> l,
              hours |-> h] :
                c \in (IF has("confidence_score") \/ has("confianca")
                       THEN {0 - MaxExcess, 0 - 1, 0, 16, 20, 21,
                             20 + MaxExcess}
                       ELSE {0}),
                d \in (IF has("event_date") \/ has("appointment_date")
                          \/ has("due_date")
                       THEN (0 - 1) .. 1 ELSE {0}),
                a \in (IF has("event_date") \/ has("appointment_date")
                          \/ has("due_date")
                       THEN BOOLEAN ELSE {FALSE}),
                l \in (IF has("task_name") THEN {0, 1, 13} ELSE {0}),
                h \in (IF has("estimated_hours") THEN {0 - 1, 0, 2}
                       ELSE {0})} :
        st \in [FieldsOf(cls) -> {"ok", "missing", "wrongtype"}]}

\* pydantic's validation of the arguments of a model class: every field
\* without a default is there, every field that is there holds a value of its
\* declared type, and the declared constraints and validators are met;
\* otherwise ValidationError.
Validated(fields, r, constraints) ==
    IF /\ r.missing \cap fields \subseteq OptionalFields
       /\ r.wrongtype \cap fields = {}
       /\ constraints
    THEN [kind |-> "record", data |-> r]
    ELSE [kind |-> "raised", data |-> NoReply]

\* confidence_score: float = Field(..., ge=0.0, le=1.0)
confidence_score_Field(v) == v >= 0 /\ v <= 20

\* @validator("confidence_score"): if not 0.0 <= v <= 1.0: raise ValueError
validate_confidence(v) == 0 <= v /\ v <= 20

SentimentAnalysis(r) ==
    Validated(FieldsOf("SentimentAnalysis"), r,
              confidence_score_Field(r.confidence)
                  /\ validate_confidence(r.confidence))

\* confianca: float = Field(..., ge=0, le=1)
AnaliseTexto(r) ==
    Validated(FieldsOf("AnaliseTexto"), r,
              r.confidence >= 0 /\ r.confidence <= 20)

Destino(r) == Validated(FieldsOf("Destino"), r, TRUE)

\* validate_future_date of EventInfo and TaskInfo (validate_appointment_date
\* of AppointmentAnalysis):
\* if v < datetime.now(): raise ValueError
\* datetime.now() carries no UTC offset, so the comparison itself raises
\* TypeError when v carries one; the TypeError leaves the constructor as it
\* is.  Otherwise the date is compared by the days from now to it.
validate_future_date(days, aware) ==
    IF aware THEN "TypeError"
    ELSE IF days < 0 THEN "ValueError"
    ELSE "ok"

EventInfo(r) ==
    Validated(FieldsOf("EventInfo"), r,
              validate_future_date(r.days, r.aware) = "ok")

AppointmentAnalysis(r) ==
    Validated(FieldsOf("AppointmentAnalysis"), r,
              validate_future_date(r.days, r.aware) = "ok")

\* task_name has min_length=1 and estimated_hours, when given, ge=0.0.
TaskInfo(r) ==
    Validated(FieldsOf("TaskInfo"), r,
              /\ r.nameLen >= 1
              /\ validate_future_date(r.days, r.aware) = "ok"
              /\ "estimated_hours" \in r.missing \/ r.hours >= 0)

\* The arguments the _simulate_*_parse methods build their instance from:
\* every field filled in, the date tomorrow, confidence_score=0.8,
\* task_name="Tarefa Padrão" (13 characters), estimated_hours=2.0.
simulate_parse(cls) ==
    [cls |-> cls, missing |-> {}, wrongtype |-> {},
     confidence |-> IF cls = "SentimentAnalysis" THEN 16 ELSE 0,
     days |-> IF cls = "SentimentAnalysis" THEN 0 ELSE 1,
     aware |-> FALSE,
     nameLen |-> IF cls = "TaskInfo" THEN 13 ELSE 0,
     hours |-> IF cls = "TaskInfo" THEN 2 ELSE 0]

\* The return value of a parse_*_safe wrapper or of a caller's try block.
Caught(parsed) ==
    IF parsed.kind = "raised" THEN [kind |-> "None", data |-> NoReply]
    ELSE parsed

\* AdvancedOutputParser.__init__: with use_langchain the constructor builds
\* ChatOpenAI(model="gpt-4.1", temperature=0), the four PydanticOutputParsers
\* and the four chains; the client library refuses to build a client without
\* a key, and nothing around the constructor catches that.  The file run as a
\* script passes use_langchain=False and builds no client.
AdvancedOutputParser_init ==
    /\ script \in {"advanced_output_parsers", "AdvancedOutputParser"}
    /\ pc = "start"
    /\ \E use_langchain \in BOOLEAN :
          /\ script = "advanced_output_parsers" => ~use_langchain
          /\ IF use_langchain /\ ~envKey
             THEN pc' = "end" /\ outcome' = "raised" /\ UNCHANGED keyInUse
             ELSE /\ pc' = "idle"
                  /\ keyInUse' = IF use_langchain THEN "env" ELSE "none"
                  /\ UNCHANGED outcome
    /\ UNCHANGED exampleVars
    /\ UNCHANGED <<script, envKey, warned, reqVars, retry0, requests,
                   graphVars>>

\* The four parse_*_safe methods: the chain (model call, then
\* PydanticOutputParser) or the simulation, inside a try block whose handler
\* prints and returns None.  demo_advanced_parsers calls the four methods in
\* turn (position `turn` of each round) on each of its four texts; an
\* importer calls one method on an instance of its own.
parse_safe(turn, cls) ==
    /\ script \in {"advanced_output_parsers", "AdvancedOutputParser"}
    /\ pc = "idle"
    /\ requests < RequestsOf(script)
    /\ script = "advanced_output_parsers" => requests % 4 = turn
    /\ requests' = requests + 1
    /\ \E ok \in BOOLEAN,
          r \in (IF keyInUse = "env" THEN Replies(cls) \cup {NoReply}
                 ELSE {NoReply}) :
          LET use_langchain == keyInUse = "env"
              Model(a) == CASE cls = "EventInfo" -> EventInfo(a)
                            [] cls = "SentimentAnalysis" -> SentimentAnalysis(a)
                            [] cls = "AppointmentAnalysis" ->
                                   AppointmentAnalysis(a)
                            [] OTHER -> TaskInfo(a)
              parsed == IF use_langchain THEN Model(r)
                        ELSE Model(simulate_parse(cls))
          IN  /\ r = NoReply <=> ~(use_langchain /\ ok)
              /\ use_langchain \/ ok
              /\ calls' = IF use_langchain THEN 1 ELSE 0
              /\ failed' = ~ok
              /\ reply' = r
              /\ decodeError' = (ok /\ parsed.kind = "raised")
              /\ result' = IF ok THEN Caught(parsed)
                           ELSE [kind |-> "None", data |-> NoReply]
              /\ reported' = (~ok \/ parsed.kind = "raised")
              /\ outcome' = IF ok /\ parsed.kind = "record" THEN "ok"
                            ELSE "sentinel"
    /\ UNCHANGED <<poolVars, promptVars, extraVars>>
    /\ UNCHANGED <<script, pc, credVars, retries, retry_count, attempt,
                   retry0, graphVars>>

parse_event_safe == parse_safe(0, "EventInfo")

parse_sentiment_safe == parse_safe(1, "SentimentAnalysis")

parse_appointment_safe ==
    parse_safe(2, "AppointmentAnalysis")

parse_task_safe == parse_safe(3, "TaskInfo")

\* demo_error_handling: an EventInfo dated yesterday, a SentimentAnalysis with
\* confidence_score=1.5 and a TaskInfo with an empty name (and no
\* estimated_hours), each built in its own try block whose handler prints
\* the ValueError.
demo_error_handling ==
    /\ script = "advanced_output_parsers"
    /\ pc = "idle"
    /\ requests = RequestsOf(script)
    /\ LET r == [simulate_parse("SentimentAnalysis") EXCEPT !.confidence = 30]
           event == EventInfo([simulate_parse("EventInfo") EXCEPT
                                  !.days = 0 - 1])
           sentiment == SentimentAnalysis(r)
           task == TaskInfo([simulate_parse("TaskInfo") EXCEPT
                                !.nameLen = 0,
                                !.missing = {"estimated_hours"},
                                !.hours = 0])
       IN  /\ reply' = r
           /\ result' = Caught(sentiment)
           /\ decodeError' = (sentiment.kind = "raised")
           /\ reported' = (event.kind = "raised" \/ sentiment.kind = "raised"
                              \/ task.kind = "raised")
    /\ pc' = "end"
    /\ outcome' = "done"
    /\ calls' = 0
    /\ failed' = FALSE
    /\ UNCHANGED <<poolVars, promptVars, extraVars>>
    /\ UNCHANGED <<script, credVars, retries, retry_count, attempt, retry0,
                   requests, graphVars>>

\* garantir_pydantic(response, Destino): an instance is returned as it is, a
\* dict goes through Destino(**response), anything else raises ValueError.
garantir_pydantic(kind, r) ==
    CASE kind = "instance" -> [kind |-> "record", data |-> r]
      [] kind = "dict" -> Destino(r)
      [] OTHER -> [kind |-> "raised", data |-> NoReply]

\* The top of the script and its first option.  The module builds
\* ChatOpenAI(model="gpt-4.1", temperature=0, api_key=os.getenv(...)) outside
\* any try: without a key the client library refuses to build the client and
\* the script ends there.  Otherwise chain_pydantic.invoke runs inside a try
\* block whose handler prints "Erro: ...".  PydanticOutputParser returns a
\* validated Destino or raises.
garantir_pydantic_option1 ==
    /\ script = "garantir_pydantic"
    /\ pc = "start"
    /\ requests = 0
    /\ IF ~envKey
       THEN /\ pc' = "end" /\ outcome' = "raised"
            /\ UNCHANGED <<keyInUse, requests, calls, failed, reported,
                           decVars>>
       ELSE /\ requests' = 1
            /\ pc' = "idle"
            /\ keyInUse' = "env"
            /\ calls' = 1
            /\ \E ok \in BOOLEAN, r \in Replies("Destino") \cup {NoReply} :
                  LET got == Destino(r)
                  IN  /\ r = NoReply <=> ~ok
                      /\ failed' = ~ok
                      /\ reply' = r
                      /\ decodeError' = (ok /\ got.kind = "raised")
                      /\ result' = IF ok THEN Caught(got)
                                   ELSE [kind |-> "None", data |-> NoReply]
                      /\ reported' = (~ok \/ got.kind = "raised")
                      /\ outcome' = IF ok /\ got.kind = "record" THEN "ok"
                                    ELSE "sentinel"
    /\ UNCHANGED <<poolVars, promptVars, extraVars>>
    /\ UNCHANGED <<script, envKey, warned, retries, retry_count, attempt,
                   retry0, graphVars>>

\* The script's second option: chain_json.invoke, then Destino(**response_dict)
\* when JsonOutputParser returned a dict and a printed remark when it returned
\* another JSON value, all inside a try block whose handler prints "Erro: ...".
garantir_pydantic_option2 ==
    /\ script = "garantir_pydantic"
    /\ pc = "idle"
    /\ requests = 1
    /\ requests' = 2
    /\ calls' = 1
    /\ \E ok \in BOOLEAN, kind \in {"dict", "other"},
          r \in Replies("Destino") \cup {NoReply} :
          LET got == IF kind = "dict" THEN Destino(r)
                     ELSE [kind |-> "None", data |-> NoReply]
          IN  /\ r = NoReply <=> ~(ok /\ kind = "dict")
              /\ ok \/ kind = "dict"
              /\ failed' = ~ok
              /\ reply' = r
              /\ decodeError' = (ok /\ got.kind = "raised")
              /\ result' = IF ok THEN Caught(got)
                           ELSE [kind |-> "None", data |-> NoReply]
              /\ reported' = (~ok \/ got.kind = "raised")
              /\ outcome' = IF ok /\ got.kind # "raised" THEN "ok"
                            ELSE "sentinel"
    /\ UNCHANGED <<poolVars, promptVars, extraVars>>
    /\ UNCHANGED <<script, pc, credVars, retries, retry_count, attempt,
                   retry0, graphVars>>

\* The script's third option: chain_json.invoke and garantir_pydantic inside a
\* try block whose handler prints "Erro: ...".  The reply decoded by
\* JsonOutputParser is a dict, a Destino (an instance is always a validated
\* one) or another JSON value.
garantir_pydantic_option3 ==
    /\ script = "garantir_pydantic"
    /\ pc = "idle"
    /\ requests = 2
    /\ requests < RequestsOf(script)
    /\ requests' = requests + 1
    /\ pc' = "idle"
    /\ keyInUse' = "env"
    /\ calls' = 1
    /\ \E ok \in BOOLEAN, kind \in {"instance", "dict", "other"},
          r \in Replies("Destino") \cup {NoReply} :
          LET got == garantir_pydantic(kind, r)
          IN  /\ r = NoReply <=> ~(ok /\ kind = "dict")
              /\ ok \/ kind = "dict"
              /\ failed' = ~ok
              /\ reply' = r
              /\ decodeError' = (ok /\ got.kind = "raised")
              /\ result' = IF ok THEN Caught(got)
                           ELSE [kind |-> "None", data |-> NoReply]
              /\ reported' = (~ok \/ got.kind = "raised")
              /\ outcome' = IF ok /\ got.kind = "record" THEN "ok"
                            ELSE "sentinel"
    /\ UNCHANGED <<poolVars, promptVars, extraVars>>
    /\ UNCHANGED <<script, envKey, warned, retries, retry_count, attempt,
                   retry0, graphVars>>

\* analisador_de_sentimento.main: AppSettings() requires OPENAI_API_KEY; the
\* handler of its ValueError prints the configuration error and returns.
analisador_main_setup ==
    /\ script = "sentiment_analyzer"
    /\ pc = "start"
    /\ IF envKey
       THEN /\ pc' = "idle" /\ keyInUse' = "env"
            /\ UNCHANGED <<reported, outcome>>
       ELSE /\ pc' = "end" /\ reported' = TRUE /\ outcome' = "exit"
            /\ UNCHANGED keyInUse
    /\ UNCHANGED <<script, envKey, warned, calls, failed, retries, retry_count,
                   attempt, retry0, requests, graphVars, exampleVars>>

\* analisador_de_sentimento.main: chain_de_analise.invoke, outside any try;
\* with_structured_output(AnaliseTexto) builds the record from the reply.
analisador_main_invoke ==
    /\ script = "sentiment_analyzer"
    /\ pc = "idle"
    /\ requests < RequestsOf(script)
    /\ requests' = requests + 1
    /\ calls' = 1
    /\ \E ok \in BOOLEAN, r \in Replies("AnaliseTexto") \cup {NoReply} :
          LET got == AnaliseTexto(r)
          IN  /\ r = NoReply <=> ~ok
              /\ failed' = ~ok
              /\ reply' = r
              /\ decodeError' = (ok /\ got.kind = "raised")
              /\ result' = IF ok THEN got
                           ELSE [kind |-> "raised", data |-> NoReply]
              /\ outcome' = IF ok /\ got.kind = "record" THEN "ok" ELSE "raised"
              /\ pc' = IF ok /\ got.kind = "record" THEN "idle" ELSE "end"
    /\ UNCHANGED <<poolVars, promptVars, extraVars>>
    /\ UNCHANGED <<script, credVars, retries, reported, retry_count, attempt,
                   retry0, graphVars>>

\* SimpleOutputParser.parse_sentiment's confidence for a text with n of the
\* counted sentiment words: min(0.95, max(0.6, n * 0.2)), without clamping.
parse_sentiment_Unclamped(n) == n * 4

\* SimpleOutputParser.parse_sentiment's confidence for a text with n of the
\* counted sentiment words: min(0.95, max(0.6, n * 0.2)).
parse_sentiment(n) == Min(19, Max(12, n * 4))

\* demo_boolean_parser: parse_sentiment on the next text; the record is a
\* plain dataclass filled with the computed values.
demo_boolean_parser ==
    /\ script = "simple_output_parsers"
    /\ pc \in {"start", "idle"}
    /\ requests < RequestsOf(script)
    /\ requests' = requests + 1
    /\ pc' = "idle"
    /\ \E n \in 0 .. MaxWords :
          result' = [kind |-> "record",
                     data |-> [NoReply EXCEPT
                                  !.confidence = parse_sentiment(n)]]
    /\ outcome' = "ok"
    /\ UNCHANGED <<poolVars, promptVars, extraVars>>
    /\ UNCHANGED <<script, credVars, reqVars, retry0, graphVars, reply,
                   decodeError>>

(***************************************************************************)
(* Worker pools.                                                           *)
(***************************************************************************)
\* Texts are sequences over a lower-case letter, an upper-case letter and a
\* blank.
Texts == UNION {[1 .. n -> {"o", "M", " "}] : n \in 0 .. MaxTextLen}

\* len(texto.split()): the number of maximal runs of non-blank characters
contar_palavras(t) ==
    Cardinality({i \in 1 .. Len(t) : t[i] # " " /\ (i = 1 \/ t[i - 1] = " ")})

\* len(texto)
contar_caracteres(t) == Len(t)

\* texto.upper()
converter_maiusculo(t) == [i \in 1 .. Len(t) |-> IF t[i] = "o" THEN "O" ELSE t[i]]

\* f"Processado: {texto}"
processar_texto(t) == <<"Processado: ">> \o t

\* The value a task function returns for the text.
TaskValue(t, txt) ==
    CASE t = "contar_palavras" -> IntVal(contar_palavras(txt))
      [] t = "contar_caracteres" -> IntVal(contar_caracteres(txt))
      [] t = "converter_maiusculo" -> StrVal(converter_maiusculo(txt))
      [] t = "processar_texto" -> StrVal(processar_texto(txt))
      [] OTHER -> NoneVal

\* Every task function touching module-level state.
SharedAccess_AllLog(t) == {<<t, "write", "logs">>}

\* The module-level state a task function touches: salvar_log appends to the
\* global list `logs`; the others work on their argument alone.
SharedAccess(t) ==
    IF t = "salvar_log" THEN {<<t, "write", "logs">>} ELSE {}

\* `logs` after task t has run on txt: salvar_log does logs.append(texto)
LogsAfter(t, l, txt) == IF t = "salvar_log" THEN Append(l, txt) ELSE l

\* ThreadPoolExecutor(max_workers=3) and ThreadPoolExecutor(max_workers=2)
max_workers(s) == IF s = "exemplo_simples_paralelo" THEN 3 ELSE 2

\* The key under which executar_paralelo stores a task's result; the local
\* variable `resultado` of runnable_paralelo; "" for the result it drops.
KeyOf(t) ==
    CASE t = "contar_palavras" -> "palavras"
      [] t = "contar_caracteres" -> "caracteres"
      [] t = "converter_maiusculo" -> "maiusculo"
      [] t = "processar_texto" -> "resultado"
      [] OTHER -> ""

TasksOf(s) == {TaskOrder(s)[i] : i \in 1 .. Len(TaskOrder(s))}

\* The script up to the runner's first submit.  comparacao's main clears
\* `logs`, runs chain_encadeada (which logs from the main thread) and clears
\* `logs` again before it calls runnable_paralelo.
pool_main_start ==
    /\ script \in PoolScripts
    /\ pc = "start"
    /\ \E t \in Texts : texto' = t
    /\ pc' = "submit"
    /\ logs' = <<>>
    /\ access' = IF script = "comparacao_paralelo_vs_encadeado"
                 THEN access \cup {<<"main", "write", "logs">>}
                 ELSE access
    /\ UNCHANGED <<future, value, collected, returned, mainStep>>
    /\ UNCHANGED <<script, credVars, reqVars, outcome, retry0, requests,
                   graphVars, decVars,
                   promptVars, extraVars>>

\* executor.submit(f, texto): the next function of the runner is queued.
executor_submit ==
    /\ script \in PoolScripts
    /\ pc = "submit"
    /\ LET t == TaskOrder(script)[mainStep + 1]
           last == mainStep + 1 = Len(TaskOrder(script))
       IN  /\ future' = [future EXCEPT ![t] = "pending"]
           /\ mainStep' = IF last THEN 0 ELSE mainStep + 1
           /\ pc' = IF last THEN "collect" ELSE pc
    /\ UNCHANGED <<texto, value, collected, returned, logs, access>>
    /\ UNCHANGED <<script, credVars, reqVars, outcome, retry0, requests,
                   graphVars, decVars,
                   promptVars, extraVars>>

\* An idle worker thread of the pool takes a queued task.
worker_start ==
    /\ script \in PoolScripts
    /\ \E t \in AllTasks :
          /\ future[t] = "pending"
          /\ Cardinality({u \in AllTasks : future[u] = "running"})
                 < max_workers(script)
          /\ future' = [future EXCEPT ![t] = "running"]
    /\ UNCHANGED <<texto, value, collected, returned, logs, access, mainStep>>
    /\ UNCHANGED <<script, pc, credVars, reqVars, outcome, retry0, requests,
                   graphVars, decVars,
                   promptVars, extraVars>>

\* A worker thread finishes its task: the function's effect takes place and
\* its return value is set on the future.
worker_finish ==
    /\ script \in PoolScripts
    /\ \E t \in AllTasks :
          /\ future[t] = "running"
          /\ future' = [future EXCEPT ![t] = "done"]
          /\ value' = [value EXCEPT ![t] = TaskValue(t, texto)]
          /\ logs' = LogsAfter(t, logs, texto)
          /\ access' = access \cup SharedAccess(t)
    /\ UNCHANGED <<texto, collected, returned, mainStep>>
    /\ UNCHANGED <<script, pc, credVars, reqVars, outcome, retry0, requests,
                   graphVars, decVars,
                   promptVars, extraVars>>

\* future.result() without the wait for the task to be done.
future_result_NoWait ==
    /\ script \in PoolScripts
    /\ pc = "collect"
    /\ LET t == TaskOrder(script)[mainStep + 1]
           last == mainStep + 1 = Len(TaskOrder(script))
       IN  /\ collected' = IF KeyOf(t) # ""
                           THEN collected \cup {<<KeyOf(t), value[t]>>}
                           ELSE collected
           /\ mainStep' = IF last THEN 0 ELSE mainStep + 1
           /\ pc' = IF last THEN "shutdown" ELSE pc
    /\ UNCHANGED <<texto, future, value, returned, logs, access>>
    /\ UNCHANGED <<script, credVars, reqVars, outcome, retry0, requests,
                   graphVars, decVars,
                   promptVars, extraVars>>

\* future.result(): the runner blocks until the task is done and reads its
\* value.  The runners read the futures in the order they submitted them.
future_result ==
    /\ script \in PoolScripts
    /\ pc = "collect"
    /\ LET t == TaskOrder(script)[mainStep + 1]
           last == mainStep + 1 = Len(TaskOrder(script))
       IN  /\ future[t] = "done"
           /\ collected' = IF KeyOf(t) # ""
                           THEN collected \cup {<<KeyOf(t), value[t]>>}
                           ELSE collected
           /\ mainStep' = IF last THEN 0 ELSE mainStep + 1
           /\ pc' = IF last THEN "shutdown" ELSE pc
    /\ UNCHANGED <<texto, future, value, returned, logs, access>>
    /\ UNCHANGED <<script, credVars, reqVars, outcome, retry0, requests,
                   graphVars, decVars,
                   promptVars, extraVars>>

\* The end of the `with` block (shutdown(wait=True)) and the return:
\* executar_paralelo returns the dict of the results it read,
\* runnable_paralelo prints `resultado` and falls off its end.
executor_exit ==
    /\ script \in PoolScripts
    /\ pc = "shutdown"
    /\ \A t \in TasksOf(script) : future[t] = "done"
    /\ returned' = IF script = "exemplo_simples_paralelo"
                   THEN [kind |-> "dict", dict |-> collected]
                   ELSE [kind |-> "None", dict |-> {}]
    /\ pc' = "idle"
    /\ outcome' = "ok"
    /\ requests' = 1
    /\ UNCHANGED <<texto, future, value, collected, logs, access, mainStep>>
    /\ UNCHANGED <<script, credVars, reqVars, retry0, graphVars, decVars,
                   promptVars, extraVars>>

(***************************************************************************)
(* Itinerary runs: the destination step, then the restaurant step and the  *)
(* attractions step on the city it decoded.                                *)
(***************************************************************************)
Interesses == {"trekking", "praias historicas"}

\* The value under "cidade" in the destination step's JSON: a name, the
\* empty string, null, or no such key.
NoneCidade == "<None>"
AbsentCidade == "<absent>"
CidadeValues == {"Paraty", "Manaus", "", NoneCidade, AbsentCidade}

\* What JsonOutputParser(pydantic_object=Destino) hands back: the parsed
\* JSON as it is, checked against nothing.  It is a dict, with any of the
\* values above under "cidade" and with or without a text under "motivo", or
\* JSON that is not an object.
DestinoOutputs ==
    {[kind |-> "dict", cidade |-> c, motivo |-> m] :
         c \in CidadeValues, m \in BOOLEAN}
        \cup {[kind |-> "other", cidade |-> AbsentCidade, motivo |-> FALSE]}

\* run_main's normalisation of `destino` to destino_dict
destino_dict(d) ==
    IF d.kind = "dict" THEN d
    ELSE [kind |-> "dict", cidade |-> NoneCidade, motivo |-> FALSE]

\* destino_dict.get("cidade")
get_cidade(d) == IF d.cidade = AbsentCidade THEN NoneCidade ELSE d.cidade

\* Python truth of the value under "cidade"
Truthy(c) == c \notin {"", NoneCidade}

\* A list of k suggestions of a step for a city
ListOf(step, c, k) == [i \in 1 .. k |-> <<step, c, i>>]

\* ListaRestaurantes(restaurantes=[]) and ListaAtracoes(atracoes=[])
EmptyList == <<>>

\* The entry run_main stores for a sub-chain: what it returned, or the empty
\* fallback list when it raised.
EntryOf(v) == IF v.kind = "raised" THEN EmptyList ELSE v.items

\* One call of a step: the log of calls grows by the step and its input.
Called(log, step, key, val) ==
    Append(log, [step |-> step, input |-> <<key, val>>])

\* What a sub-chain hands back when called for city c.
StepOutcome(step, c, ok, k) ==
    IF ok THEN [kind |-> "value", items |-> ListOf(step, c, k)]
    ELSE [kind |-> "raised", items |-> <<>>]

\* The exception that ends a run.
Raised(error) == [NoResultado EXCEPT !.kind = "raised", !.error = error]

\* main of roteiro_viagem up to the call of the main chain (the caller of
\* roteiro_viagem_v2's chain up to invoke): the interest is the input.
\* roteiro_viagem_v2's llm_setup imports its config, whose Settings() holds
\* the key itself (create_model passes settings.openai_api_key): without
\* the key it never validates.
\* roteiro_viagem's main.py first imports config, whose module-level
\* Settings() requires openai_api_key and langchain_api_key: when it does
\* not validate (itin.config), ValidationError leaves the script at the
\* import, before main and its try.  With the settings valid,
\* load_environment_variables raises ValueError when
\* os.getenv("OPENAI_API_KEY") is empty (the variable is set to nothing, or
\* only the .env of the working directory holds it); main's
\* `except Exception` logs it and main returns, no chain having been built.
roteiro_main_start ==
    /\ script \in ItineraryScripts
    /\ pc = "start"
    /\ CASE ~itin.config ->
               /\ keyInUse' = "none"
               /\ pc' = "end" /\ outcome' = "raised"
               /\ UNCHANGED <<reported, itin>>
         [] itin.config /\ ~envKey ->
               /\ \E interesse \in Interesses :
                     itin' = [itin EXCEPT !.inputs = interesse]
               /\ keyInUse' = "none"
               /\ reported' = TRUE
               /\ pc' = "end" /\ outcome' = "exit"
         [] OTHER ->
               /\ \E interesse \in Interesses :
                     itin' = [itin EXCEPT !.inputs = interesse]
               /\ keyInUse' = "env"
               /\ pc' = "destino"
               /\ UNCHANGED <<reported, outcome>>
    /\ UNCHANGED <<script, envKey, warned, calls, failed, retries, retry_count,
                   attempt, retry0, requests,
                   graphVars, decVars, poolVars, promptVars>>
    /\ UNCHANGED notItin

\* run_main, steps 1 and 2, without the test of `cidade`.
run_main_destino_NoValidation ==
    /\ script = "roteiro_viagem"
    /\ pc = "destino"
    /\ calls' = calls + 1
    /\ \E ok \in BOOLEAN, d \in DestinoOutputs :
          LET log == Called(itin.stepLog, "destino", "interesse", itin.inputs)
              cidade == get_cidade(destino_dict(d))
          IN  IF ~ok
              THEN /\ itin' = [itin EXCEPT !.stepLog = log,
                                           !.resultado = Raised("RuntimeError")]
                   /\ failed' = TRUE /\ reported' = TRUE
                   /\ pc' = "end" /\ outcome' = "exit"
              ELSE /\ itin' = [itin EXCEPT !.stepLog = log,
                                           !.destino = destino_dict(d),
                                           !.cidade = cidade]
                   /\ pc' = "restaurantes"
                   /\ UNCHANGED <<failed, reported, outcome>>
    /\ UNCHANGED <<script, credVars, retries, retry_count, attempt, retry0,
                   requests, graphVars, decVars, poolVars, promptVars>>
    /\ UNCHANGED notItin

\* run_main, steps 1 and 2: chain_destino is called with the inputs; an
\* exception becomes RuntimeError; the result is normalised to a dict and a
\* missing or empty cidade is a ValueError.  main logs either error and ends.
run_main_destino ==
    /\ script = "roteiro_viagem"
    /\ pc = "destino"
    /\ calls' = calls + 1
    /\ \E ok \in BOOLEAN, d \in DestinoOutputs :
          LET log == Called(itin.stepLog, "destino", "interesse", itin.inputs)
              cidade == get_cidade(destino_dict(d))
          IN  IF ~ok
              THEN /\ itin' = [itin EXCEPT !.stepLog = log,
                                           !.resultado = Raised("RuntimeError")]
                   /\ failed' = TRUE /\ reported' = TRUE
                   /\ pc' = "end" /\ outcome' = "exit"
              ELSE IF ~Truthy(cidade)
              THEN /\ itin' = [itin EXCEPT !.stepLog = log,
                                           !.destino = destino_dict(d),
                                           !.resultado = Raised("ValueError")]
                   /\ reported' = TRUE
                   /\ pc' = "end" /\ outcome' = "exit"
                   /\ UNCHANGED failed
              ELSE /\ itin' = [itin EXCEPT !.stepLog = log,
                                           !.destino = destino_dict(d),
                                           !.cidade = cidade]
                   /\ pc' = "restaurantes"
                   /\ UNCHANGED <<failed, reported, outcome>>
    /\ UNCHANGED <<script, credVars, retries, retry_count, attempt, retry0,
                   requests, graphVars, decVars, poolVars, promptVars>>
    /\ UNCHANGED notItin

\* run_main, step 3, with the restaurant step given the run's inputs.
run_main_restaurantes_Inputs ==
    /\ script = "roteiro_viagem"
    /\ pc = "restaurantes"
    /\ calls' = calls + 1
    /\ pc' = "passeios"
    /\ \E ok \in BOOLEAN, k \in 0 .. MaxSuggestions :
          /\ itin' = [itin EXCEPT
                 !.stepLog = Called(@, "restaurantes", "interesse", itin.inputs),
                 !.stepValue["restaurantes"] =
                     StepOutcome("restaurantes", itin.inputs, ok, k)]
          /\ failed' = (failed \/ ~ok)
          /\ reported' = (reported \/ ~ok)
    /\ UNCHANGED <<script, credVars, retries, retry_count, attempt, retry0,
                   requests, outcome, graphVars, decVars, poolVars, promptVars>>
    /\ UNCHANGED notItin

\* run_main, step 3, first half: chain_restaurantes({"cidade": cidade}); an
\* exception is logged and replaced by the empty list when the result is
\* assembled.
run_main_restaurantes ==
    /\ script = "roteiro_viagem"
    /\ pc = "restaurantes"
    /\ calls' = calls + 1
    /\ pc' = "passeios"
    /\ \E ok \in BOOLEAN, k \in 0 .. MaxSuggestions :
          /\ itin' = [itin EXCEPT
                 !.stepLog = Called(@, "restaurantes", "cidade", itin.cidade),
                 !.stepValue["restaurantes"] =
                     StepOutcome("restaurantes", itin.cidade, ok, k)]
          /\ failed' = (failed \/ ~ok)
          /\ reported' = (reported \/ ~ok)
    /\ UNCHANGED <<script, credVars, retries, retry_count, attempt, retry0,
                   requests, outcome, graphVars, decVars, poolVars, promptVars>>
    /\ UNCHANGED notItin

\* run_main, step 3, second half, without the try around the call: the
\* exception of chain_passeios_culturais leaves run_main.
run_main_passeios_NoFallback ==
    /\ script = "roteiro_viagem"
    /\ pc = "passeios"
    /\ calls' = calls + 1
    /\ \E ok \in BOOLEAN, k \in 0 .. MaxSuggestions :
          LET v == StepOutcome("passeios_culturais", itin.cidade, ok, k)
              values == [itin.stepValue EXCEPT !["passeios_culturais"] = v]
              log == Called(itin.stepLog, "passeios_culturais", "cidade",
                            itin.cidade)
          IN  /\ itin' = [itin EXCEPT
                     !.stepLog = log,
                     !.stepValue = values,
                     !.resultado =
                         IF ok
                         THEN [kind |-> "dict", error |-> "",
                               keys |-> {"destino_info", "sugestoes"},
                               destino_info |-> itin.destino,
                               sugestoes |-> [s \in SubSteps |-> EntryOf(values[s])]]
                         ELSE Raised("Exception")]
              /\ failed' = (failed \/ ~ok)
              /\ reported' = (reported \/ ~ok)
              /\ pc' = IF ok THEN "format" ELSE "end"
              /\ outcome' = IF ok THEN "ok" ELSE "exit"
              /\ requests' = IF ok THEN 1 ELSE requests
    /\ UNCHANGED <<script, credVars, retries, retry_count, attempt, retry0,
                   graphVars, decVars, poolVars, promptVars>>
    /\ UNCHANGED notItin

\* run_main, step 3, second half, and the return:
\* chain_passeios_culturais({"cidade": cidade}) with the same fallback, then
\* `resultado` is assembled from destino_dict and the two entries.
run_main_passeios ==
    /\ script = "roteiro_viagem"
    /\ pc = "passeios"
    /\ calls' = calls + 1
    /\ pc' = "format"
    /\ outcome' = "ok"
    /\ requests' = 1
    /\ \E ok \in BOOLEAN, k \in 0 .. MaxSuggestions :
          LET v == StepOutcome("passeios_culturais", itin.cidade, ok, k)
              values == [itin.stepValue EXCEPT !["passeios_culturais"] = v]
              log == Called(itin.stepLog, "passeios_culturais", "cidade",
                            itin.cidade)
          IN  /\ itin' = [itin EXCEPT
                     !.stepLog = log,
                     !.stepValue = values,
                     !.resultado =
                         [kind |-> "dict", error |-> "",
                          keys |-> {"destino_info", "sugestoes"},
                          destino_info |-> itin.destino,
                          sugestoes |-> [s \in SubSteps |-> EntryOf(values[s])]]]
              /\ failed' = (failed \/ ~ok)
              /\ reported' = (reported \/ ~ok)
    /\ UNCHANGED <<script, credVars, retries, retry_count, attempt, retry0,
                   graphVars, decVars, poolVars, promptVars>>
    /\ UNCHANGED notItin

\* format_and_print_roteiro(resultado_final), called by main with what
\* run_main returned.  sugestoes['restaurantes'] is a ListaRestaurantes
\* object (what the sub-chain's PydanticOutputParser returned, or the
\* fallback), which is true in `if restaurantes:`; the default argument of
\* getattr on line 38 is restaurantes.get(...), which a pydantic object does
\* not have: AttributeError.  main's `except Exception` logs it and main
\* returns.
format_and_print_roteiro ==
    /\ script = "roteiro_viagem"
    /\ pc = "format"
    /\ itin.resultado.kind = "dict"
    /\ reported' = TRUE
    /\ pc' = "end"
    /\ outcome' = "exit"
    /\ UNCHANGED <<script, credVars, calls, failed, retries, retry_count,
                   attempt, retry0, requests, graphVars, decVars, poolVars,
                   promptVars, extraVars>>

\* roteiro_viagem_v2, first stage of the chain:
\* RunnablePassthrough.assign(destino_info=chain_destino).  Nothing around
\* the chain catches, so an exception of the step ends the run.
v2_assign_destino ==
    /\ script = "roteiro_viagem_v2"
    /\ pc = "destino"
    /\ calls' = calls + 1
    /\ \E ok \in BOOLEAN, d \in DestinoOutputs :
          LET log == Called(itin.stepLog, "destino", "interesse", itin.inputs)
          IN  IF ok
              THEN /\ itin' = [itin EXCEPT !.stepLog = log, !.destino = d]
                   /\ pc' = "parallel"
                   /\ UNCHANGED <<failed, outcome>>
              ELSE /\ itin' = [itin EXCEPT !.stepLog = log,
                                           !.resultado = Raised("Exception")]
                   /\ failed' = TRUE
                   /\ pc' = "end" /\ outcome' = "raised"
    /\ UNCHANGED <<script, credVars, retries, reported, retry_count, attempt,
                   retry0, requests, graphVars, decVars, poolVars, promptVars>>
    /\ UNCHANGED notItin

\* roteiro_viagem_v2, one branch of the RunnableParallel under `sugestoes`:
\* the lambda reads x["destino_info"]["cidade"] (an exception when
\* destino_info is not a dict or has no such key) and the sub-chain is
\* invoked with it.  The two branches run on two threads: each sends its
\* request (the step's value is "pending" while the request is in flight)
\* and later gets its reply, in any interleaving with the other branch.
v2_parallel_branch ==
    /\ script = "roteiro_viagem_v2"
    /\ pc = "parallel"
    /\ \E step \in SubSteps, ok \in BOOLEAN, k \in 0 .. MaxSuggestions :
          CASE itin.stepValue[step].kind = "unset"
                  /\ (itin.destino.kind # "dict"
                         \/ itin.destino.cidade = AbsentCidade) ->
                   /\ itin' = [itin EXCEPT !.stepValue[step] =
                                  [kind |-> "raised", items |-> <<>>]]
                   /\ UNCHANGED <<calls, failed>>
            [] itin.stepValue[step].kind = "unset"
                  /\ itin.destino.kind = "dict"
                  /\ itin.destino.cidade # AbsentCidade ->
                   /\ itin' = [itin EXCEPT
                          !.stepLog = Called(@, step, "cidade",
                                             itin.destino.cidade),
                          !.stepValue[step] =
                              [kind |-> "pending", items |-> <<>>]]
                   /\ calls' = calls + 1
                   /\ UNCHANGED failed
            [] itin.stepValue[step].kind = "pending" ->
                   /\ itin' = [itin EXCEPT !.stepValue[step] =
                                  StepOutcome(step, itin.destino.cidade, ok, k)]
                   /\ failed' = (failed \/ ~ok)
                   /\ UNCHANGED calls
            [] OTHER -> FALSE
    /\ UNCHANGED <<script, credVars, retries, reported, retry_count, attempt,
                   retry0, requests, pc, outcome, graphVars, decVars, poolVars,
                   promptVars>>
    /\ UNCHANGED notItin

\* roteiro_viagem_v2, the end of invoke, once both branches are done: the
\* exception of a branch leaves the chain; otherwise the input dict with
\* destino_info and sugestoes assigned is returned.
v2_parallel_join ==
    /\ script = "roteiro_viagem_v2"
    /\ pc = "parallel"
    /\ \A step \in SubSteps :
          itin.stepValue[step].kind \notin {"unset", "pending"}
    /\ IF \E step \in SubSteps : itin.stepValue[step].kind = "raised"
       THEN /\ itin' = [itin EXCEPT !.resultado = Raised("Exception")]
            /\ pc' = "end" /\ outcome' = "raised"
            /\ UNCHANGED requests
       ELSE /\ itin' = [itin EXCEPT !.resultado =
                           [kind |-> "dict", error |-> "",
                            keys |-> {"interesse", "destino_info", "sugestoes"},
                            destino_info |-> itin.destino,
                            sugestoes |-> [s \in SubSteps |->
                                              itin.stepValue[s].items]]]
            /\ pc' = "idle" /\ outcome' = "ok"
            /\ requests' = 1
    /\ UNCHANGED <<script, credVars, reqVars, retry0, graphVars, decVars,
                   poolVars, promptVars>>
    /\ UNCHANGED notItin

(***************************************************************************)
(* The string processor of lg_router_exercise.                             *)
(***************************************************************************)
\* main's test_cases, their strings shortened
test_cases ==
    << [user_string |-> <<"o", "M", " ">>, action_type |-> "reverse"],
       [user_string |-> <<"M", "o">>, action_type |-> "upper"],
       [user_string |-> <<"o", " ">>, action_type |-> "invalid_action"] >>

\* State.model_validate: action_type is Literal["reverse", "upper"]
model_validate(inputs) == inputs.action_type \in {"reverse", "upper"}

\* reverse_node: input_string[::-1]
reverse_node(t) == [i \in 1 .. Len(t) |-> t[Len(t) + 1 - i]]

\* upper_node: input_string.upper()
upper_node(t) == [i \in 1 .. Len(t) |-> IF t[i] = "o" THEN "O" ELSE t[i]]

\* router: the node named for the action, or ValueError
router(action_type) ==
    CASE action_type = "reverse" -> "reverse_node"
      [] action_type = "upper" -> "upper_node"
      [] OTHER -> "ValueError"

\* main up to the loop: build_graph hands set_conditional_entry_point the
\* mapping dict as its only argument (the router function is named in a
\* comment and is not imported), so the entry point's path is a dict of
\* strings.  The library refuses it, when the graph is built or when the
\* entry point is first used; either way with TypeError.
\* Before that, get_settings(): when Settings() fails validation
\* (LANGSMITH_API_KEY is missing) it logs the error as critical and ends
\* the program with sys.exit(1).
router_main_build ==
    /\ script = "lg_router_exercise"
    /\ pc = "start"
    /\ UNCHANGED keyInUse
    /\ \E refusedAt \in {"build", "invoke"} :
          CASE ~rt.settings ->
                   /\ rt' = [rt EXCEPT !.error = "SystemExit"]
                   /\ reported' = TRUE
                   /\ pc' = "end" /\ outcome' = "exit"
            [] rt.settings /\ refusedAt = "build" ->
                   /\ rt' = [rt EXCEPT !.error = "TypeError"]
                   /\ pc' = "end" /\ outcome' = "raised"
                   /\ UNCHANGED reported
            [] OTHER ->
                   /\ rt' = [rt EXCEPT !.built = TRUE]
                   /\ pc' = "cases"
                   /\ UNCHANGED <<reported, outcome>>
    /\ UNCHANGED <<script, envKey, warned, calls, failed, retries, retry_count,
                   attempt, retry0, requests,
                   graphVars, decVars, poolVars, promptVars>>
    /\ UNCHANGED notRt

\* One turn of main's loop: State.model_validate(inputs), then
\* app.invoke(inputs).  A ValidationError is counted and the loop goes on;
\* the TypeError of the entry point is not caught and ends main.  After the
\* last case main prints the counts.
router_main_case ==
    /\ script = "lg_router_exercise"
    /\ pc = "cases"
    /\ rt.case <= Len(test_cases)
    /\ LET inputs == test_cases[rt.case]
           last == rt.case = Len(test_cases)
       IN  IF ~model_validate(inputs)
           THEN /\ rt' = [rt EXCEPT !.fail_count = @ + 1, !.case = @ + 1]
                /\ pc' = IF last THEN "end" ELSE "cases"
                /\ outcome' = IF last THEN "done" ELSE outcome
           ELSE /\ rt' = [rt EXCEPT !.error = "TypeError"]
                /\ pc' = "end" /\ outcome' = "raised"
    /\ UNCHANGED <<script, credVars, reqVars, retry0, requests,
                   graphVars, decVars, poolVars, promptVars>>
    /\ UNCHANGED notRt

Next ==
    \/ setup_environment
    \/ Chatbot_setup_environment
    \/ chain_evolution_setup
    \/ executar_exercicios
    \/ research_notebook_setup
    \/ graph_script_setup
    \/ movie_main_setup
    \/ execute_chain
    \/ example_1_basic_chain
    \/ example_2_structured_chain
    \/ example_3_multi_step_chain
    \/ example_4_robust_chain
    \/ example_5_memory_chain
    \/ safe_chain_execution
    \/ Chatbot_chat
    \/ update_personality
    \/ core_main_setup
    \/ openai_client_main
    \/ MemoryManager_get_history
    \/ test_config_main
    \/ core_Chatbot_chat
    \/ movie_main_question
    \/ script_end
    \/ run_research_agent
    \/ graph_invoke
    \/ query_analyzer_node
    \/ research_node
    \/ draft_generator_node
    \/ reflection_node
    \/ revision_node
    \/ finalization_node
    \/ enhance_question_node
    \/ specialist_node
    \/ out_of_scope_node
    \/ reformulate_node
    \/ answer_node
    \/ AdvancedOutputParser_init
    \/ parse_event_safe
    \/ parse_sentiment_safe
    \/ parse_appointment_safe
    \/ parse_task_safe
    \/ demo_error_handling
    \/ garantir_pydantic_option1
    \/ garantir_pydantic_option2
    \/ garantir_pydantic_option3
    \/ analisador_main_setup
    \/ analisador_main_invoke
    \/ demo_boolean_parser
    \/ pool_main_start
    \/ executor_submit
    \/ worker_start
    \/ worker_finish
    \/ future_result
    \/ executor_exit
    \/ roteiro_main_start
    \/ run_main_destino
    \/ run_main_restaurantes
    \/ run_main_passeios
    \/ format_and_print_roteiro
    \/ v2_assign_destino
    \/ v2_parallel_branch
    \/ v2_parallel_join
    \/ router_main_build
    \/ router_main_case

Spec == Init /\ [][Next]_vars

\* One superstep of the compiled research graph: agent.invoke runs the node
\* the last edge named, and goes on doing so until a node raises or END is
\* reached.
ResearchStep ==
    \/ query_analyzer_node
    \/ research_node
    \/ draft_generator_node
    \/ reflection_node
    \/ revision_node
    \/ finalization_node

\* The program with the graph engine never pausing in the middle of a run.
LiveSpec == Spec /\ WF_vars(ResearchStep)

(***************************************************************************)
(* Credential check at start-up.                                           *)
(***************************************************************************)
\* C1 as stated: in every script, with the credential absent, the program
\* raises or exits at start-up, before any model call is attempted.
C1_EveryScriptStopsAtStartup ==
    ~envKey =>
        \/ pc = "start"
        \/ pc = "end" /\ outcome \in {"raised", "exit"} /\ calls = 0

\* C1 amended.  With the credential absent:
\*  - the scripts that test the key themselves raise at start-up;
\*  - analisador_de_sentimento prints the configuration error and returns;
\*  - roteiro_viagem raises ValidationError at the import of config when its
\*    Settings do not validate, and otherwise its main logs the ValueError of
\*    load_environment_variables and returns; roteiro_viagem_v2, whose
\*    Settings hold the key, always raises at that import;
\*  - question_assistant, garantir_pydantic, movie_project_rag and an
\*    AdvancedOutputParser built with use_langchain stop where they build the
\*    client (question_assistant reports and exits, the others raise;
\*    movie_project_rag may have stopped on its catalogue before);
\*  - simple_debugger_practice and assistent_questions_project raise in
\*    their first graph node;
\*  - chatbot_core and openai_client get no model from their loader;
\* all of them before any model call.  exercicios_praticos only warns and
\* runs its exercises, none of which calls a model, to the end; the scripts
\* that use no model run as with the key; research_agent_notebook installs
\* the key written in its own source and goes on to call the model.
C1_StartupCredential ==
    /\ (script = "sentiment_analyzer" /\ ~envKey) =>
           /\ calls = 0
           /\ pc = "start" \/ (pc = "end" /\ outcome = "exit" /\ reported)
    /\ (script = "roteiro_viagem" /\ ~envKey) =>
           /\ calls = 0
           /\ \/ pc = "start"
              \/ pc = "end" /\ itin.config /\ outcome = "exit" /\ reported
              \/ pc = "end" /\ ~itin.config /\ outcome = "raised" /\ ~reported
    /\ (script = "roteiro_viagem_v2" /\ ~envKey) =>
           /\ calls = 0
           /\ pc = "start" \/ (pc = "end" /\ outcome = "raised")
    /\ (script \in CheckingScripts /\ ~envKey) =>
           /\ calls = 0
           /\ pc = "start" \/ (pc = "end" /\ outcome = "raised")
    /\ (script = "question_assistant" /\ ~envKey) =>
           /\ calls = 0
           /\ pc = "start" \/ (pc = "end" /\ outcome = "exit" /\ reported)
    /\ (script = "garantir_pydantic" /\ ~envKey) =>
           /\ calls = 0
           /\ pc = "start" \/ (pc = "end" /\ outcome = "raised")
    /\ (script = "movie_project_rag" /\ ~envKey) =>
           /\ calls = 0
           /\ pc = "start" \/ (pc = "end" /\ outcome \in {"raised", "exit"})
    /\ (script = "AdvancedOutputParser" /\ ~envKey) =>
           /\ calls = 0
           /\ keyInUse = "none"
    /\ (script \in {"assistent_questions_project",
                    "simple_debugger_practice"} /\ ~envKey) =>
           /\ calls = 0
           /\ outcome \in {"running", "raised"}
           /\ pc = "graph" => visits = NoVisits
           /\ \A n \in AllNodeNames \ {EntryNode(script)} : visits[n] = 0
    /\ (script \in ModelLoaderScripts /\ ~envKey) =>
           /\ calls = 0
           /\ keyInUse = "none"
           /\ ld.returned # "ChatOpenAI"
           /\ pc = "start" \/ (pc = "end" /\ outcome \in {"done", "raised"})
    /\ script \in {"exercicios_praticos", "advanced_output_parsers",
                   "simple_output_parsers", "test_config"}
                     \cup PoolScripts \cup RouterScripts =>
           /\ calls = 0
           /\ ~envKey => keyInUse = "none"
           /\ script = "exercicios_praticos" /\ pc = "end" =>
                  (outcome = "done" /\ warned = ~envKey)
    /\ (script = "research_agent_notebook" /\ pc # "start") =>
           keyInUse = "placeholder"
    /\ Scripts = CheckingScripts \cup ModelLoaderScripts \cup PoolScripts
                    \cup RouterScripts \cup ItineraryScripts \cup GraphScripts
                    \cup {"sentiment_analyzer", "garantir_pydantic",
                          "movie_project_rag", "AdvancedOutputParser",
                          "exercicios_praticos", "advanced_output_parsers",
                          "simple_output_parsers", "test_config"}

\* A checking script has raised at start-up for want of the key.
C1_Witness ==
    /\ script \in CheckingScripts
    /\ ~envKey
    /\ pc = "end"
    /\ outcome = "raised"
    /\ calls = 0

(***************************************************************************)
(* Failing model calls.                                                    *)
(***************************************************************************)
\* The scripts whose code catches a failing model call.
CatchingScripts == {"chatbot_class_example", "chain_evolution_example_4",
                    "research_agent_notebook", "question_assistant",
                    "advanced_output_parsers", "AdvancedOutputParser",
                    "garantir_pydantic",
                    "chatbot_core"}

\* The scripts that call the model outside any try block.
UnguardedScripts == {"movie_project_rag", "simple_debugger_practice",
                     "assistent_questions_project", "sentiment_analyzer",
                     "chain_evolution_examples",
                     "chain_evolution_example_3", "chain_evolution_example_5"}

\* C2 as stated: in every script a failing model call is caught and reported,
\* and never leaves the script as an unhandled exception.
C2_EveryFailureCaught ==
    failed => (reported /\ outcome # "raised")

\* C2 amended: Chatbot.chat of chatbot_class_example, the chat loop of
\* chatbot_core, safe_chain_execution, run_research_agent,
\* parse_sentiment_safe, garantir_pydantic.py and question_assistant's main
\* catch a failing model call, report it and return a sentinel or exit;
\* execute_chain reports every failure but re-raises the last one once its
\* retry_count + 1 invocations are used up; movie_project_rag,
\* simple_debugger_practice, assistent_questions_project,
\* analisador_de_sentimento and chain_evolution_examples but for
\* safe_chain_execution (its examples 1, 2, 3 and 5) do not catch it and the failure ends them as an
\* exception.
C2_FailureHandling ==
    /\ (script \in CatchingScripts /\ failed) =>
           /\ reported
           /\ outcome \in {"running", "ok", "sentinel", "exit"}
           /\ (script = "chatbot_class_example" => outcome = "sentinel")
           /\ (script = "research_agent_notebook" => outcome = "sentinel")
           /\ (script = "question_assistant" => outcome = "exit" /\ pc = "end")
    /\ (script = "chain_template" /\ failed) =>
           /\ reported
           /\ outcome = "raised" => (calls = retry0 + 1 /\ pc = "end")
           /\ outcome = "running" => calls <= retry0
    /\ (script \in UnguardedScripts /\ failed) =>
           (outcome = "raised" /\ pc = "end" /\ ~reported)

\* Chatbot.chat has turned a failed invocation into its error string.
C2_Witness ==
    /\ script = "chatbot_class_example"
    /\ failed
    /\ reported
    /\ outcome = "sentinel"

(***************************************************************************)
(* Shape of the workflow graphs.                                           *)
(***************************************************************************)
\* Graph g has 2..hi nodes, at most one branch condition and no cycle.
SmallAcyclic(g, hi) ==
    /\ Cardinality(GraphNodes(g)) >= 2
    /\ Cardinality(GraphNodes(g)) <= hi
    /\ Cardinality(GraphBranches(g)) <= 1
    /\ ~HasCycle(g)

\* C4 as stated: every workflow graph has between 2 and 4 nodes, is linear or
\* has a single branch condition and has no cycle, so that no node executes
\* more than once in a run.
C4_EveryGraphSmallAcyclic ==
    pc = "graph" =>
        /\ SmallAcyclic(script, 4)
        /\ \A n \in AllNodeNames : visits[n] <= 1

\* C4 amended: every workflow graph but the research agent's has 2 or 3 nodes,
\* is linear or has a single branch condition, has no cycle and executes no
\* node more than once in a run; the research agent's graph has 6 nodes, two
\* branch conditions and a reflect/revision cycle, in which reflect executes
\* at most max(1, max_iterations) times, revision fewer times than that, and
\* every other node at most once.
C4_GraphShapes ==
    /\ \A g \in AllGraphs \ {"research_agent_notebook"} : SmallAcyclic(g, 3)
    /\ script # "research_agent_notebook" =>
           \A n \in AllNodeNames : visits[n] <= 1
    /\ Cardinality(ResearchNodes) = 6
    /\ Cardinality(ResearchBranches) = 2
    /\ HasCycle("research_agent_notebook")
    /\ script = "research_agent_notebook" =>
           /\ visits["reflect"] <= Max(1, rs.max_iterations)
           /\ visits["revision"] < Max(1, rs.max_iterations)
           /\ \A n \in AllNodeNames \ {"reflect", "revision"} : visits[n] <= 1

\* A run of the research agent has gone round its cycle and finished, and a
\* run of a single-branch graph has finished.
C4_Witness ==
    \/ /\ script = "research_agent_notebook"
       /\ visits["reflect"] = 2
       /\ visits["revision"] = 1
       /\ visits["finalize"] = 1
       /\ outcome = "ok"
    \/ /\ script = "assistent_questions_project"
       /\ visits["enhancer"] = 1
       /\ visits["specialist"] = 1
       /\ outcome = "ok"

Conforms(r) ==
    /\ r.missing \subseteq OptionalFields
    /\ r.wrongtype = {}
    /\ r.cls \in {"SentimentAnalysis", "AnaliseTexto"} =>
           (r.confidence >= 0 /\ r.confidence <= 20)
    /\ r.cls \in {"EventInfo", "AppointmentAnalysis", "TaskInfo"} =>
           r.days >= 0
    /\ r.cls = "TaskInfo" => (r.nameLen >= 1 /\ r.hours >= 0)

\* The JSON of the destination step satisfies the schema of Destino: an
\* object with a text under "cidade" and a text under "motivo".
DestinoConforms(d) ==
    /\ d.kind = "dict"
    /\ d.cidade \notin {NoneCidade, AbsentCidade}
    /\ d.motivo

\* The decoders built on the pydantic classes (the parse_*_safe methods,
\* demo_error_handling, garantir_pydantic.py, analisador_de_sentimento): a
\* reply that does not conform makes the decoder raise, and every record
\* handed to the caller conforms.
C3_ValidatingDecoders ==
    /\ ~Conforms(reply) =>
           (decodeError /\ result.kind \in {"None", "raised"})
    /\ result.kind = "record" => Conforms(result.data)

\* The destination step of the two itineraries, decoded by
\* JsonOutputParser(pydantic_object=Destino): a value that does not conform
\* has not been handed on, the run has ended with an exception at that step.
C3_DestinationDecoded ==
    (script \in ItineraryScripts /\ itin.destino.kind # "none"
        /\ ~DestinoConforms(itin.destino)) =>
        (pc = "end" /\ itin.resultado.kind = "raised")

\* C3: whenever the reply does not satisfy the expected schema (a field is
\* missing, has the wrong type or is out of range) the decoder raises, and the
\* caller never receives a typed record holding malformed data.
C3_SchemaViolationRaises ==
    /\ C3_ValidatingDecoders
    /\ C3_DestinationDecoded

(***************************************************************************)
(* Range of the confidence of a record.                                    *)
(***************************************************************************)
\* C7: every sentiment or analysis record that is produced holds a confidence
\* between 0 and 1 (0 and 20 twentieths).
C7_ConfidenceInUnitRange ==
    (script \in DecoderScripts /\ result.kind = "record") =>
        (result.data.confidence >= 0 /\ result.data.confidence <= 20)

\* parse_sentiment has clamped the confidence of a text with five or more
\* sentiment words to 0.95.
C7_Witness ==
    /\ script = "simple_output_parsers"
    /\ result.kind = "record"
    /\ result.data.confidence = 19

(***************************************************************************)
(* State shared by the functions of a worker pool.                         *)
(***************************************************************************)
\* C6 as stated: the functions run by the worker pool neither read nor write
\* any state shared with another task or with the submitting thread.
C6_NoSharedState ==
    \A a \in access : a[1] \notin AllTasks

\* C6 amended: the three functions pooled by executar_paralelo, and
\* processar_texto, neither read nor write shared state; salvar_log appends
\* its argument to the module-level list `logs`, which the submitting thread
\* also writes (it clears it before the pool is started); no other task
\* touches `logs`, so that it holds exactly the text once salvar_log is done.
C6_OnlySalvarLogShares ==
    /\ \A a \in access : a[1] \in {"main", "salvar_log"}
    /\ script = "exemplo_simples_paralelo" => (access = {} /\ logs = <<>>)
    /\ (script = "comparacao_paralelo_vs_encadeado" /\ pc # "start") =>
           /\ logs = (IF future["salvar_log"] = "done" THEN <<texto>> ELSE <<>>)
           /\ <<"salvar_log", "write", "logs">> \in access
                  <=> future["salvar_log"] = "done"

\* salvar_log has written `logs` while processar_texto was still running.
C6_Witness ==
    /\ script = "comparacao_paralelo_vs_encadeado"
    /\ future["processar_texto"] = "running"
    /\ future["salvar_log"] = "done"
    /\ <<"salvar_log", "write", "logs">> \in access
    /\ logs = <<texto>>

(***************************************************************************)
(* What a parallel runner returns.                                         *)
(***************************************************************************)
\* C8 as stated: the runner returns only after every submitted task has
\* completed, and its result contains the result of each submitted task.
C8_ResultHoldsEveryTask ==
    returned.kind # "pending" =>
        \A t \in TasksOf(script) :
            /\ future[t] = "done"
            /\ \E kv \in returned.dict : kv[2] = TaskValue(t, texto)

\* C8 amended: both runners return only after every task they submitted has
\* completed; the dict executar_paralelo returns holds the result of each of
\* its three tasks under its key; runnable_paralelo returns None, having read
\* (and printed) the result of processar_texto and dropped salvar_log's.
C8_RunnerJoins ==
    returned.kind # "pending" =>
        /\ \A t \in TasksOf(script) : future[t] = "done"
        /\ script = "exemplo_simples_paralelo" =>
               /\ returned.kind = "dict"
               /\ returned.dict =
                      {<<KeyOf(t), TaskValue(t, texto)>> : t \in TasksOf(script)}
        /\ script = "comparacao_paralelo_vs_encadeado" =>
               /\ returned.kind = "None"
               /\ collected = {<<"resultado", StrVal(processar_texto(texto))>>}

\* executar_paralelo has returned its dict of three results for a non-empty
\* text.
C8_Witness ==
    /\ script = "exemplo_simples_paralelo"
    /\ returned.kind = "dict"
    /\ Cardinality(returned.dict) = 3
    /\ <<"caracteres", IntVal(Len(texto))>> \in returned.dict
    /\ Len(texto) > 0

(***************************************************************************)
(* Prompt formatting is deterministic.                                     *)
(***************************************************************************)
\* C9: whenever a run has formatted two prompts from the same template, the
\* same input values and the same stored history, the two prompts are
\* identical: nothing else of the chatbot's state reaches the prompt, and
\* formatting changes none of what it reads.
C9_FormattingDeterministic ==
    \A i, j \in 1..Len(builds) :
        builds[i].inputs = builds[j].inputs =>
            builds[i].prompt = builds[j].prompt

\* chatbot_core has built a prompt twice from the same message and the same
\* non-empty stored history (the model call in between failed, so the memory
\* kept its two messages).
C9_Witness ==
    /\ script = "chatbot_core"
    /\ \E i, j \in 1..Len(builds) :
          /\ i < j
          /\ builds[i].inputs = builds[j].inputs
          /\ Len(builds[i].inputs.history) = 2
          /\ Len(builds[i].prompt) = 1 + Len(pirate_examples) + 2 + 1

(***************************************************************************)
(* Itinerary runs.                                                         *)
(***************************************************************************)
\* The calls of the log made to a step.
CallsOf(step) ==
    {i \in 1 .. Len(itin.stepLog) : itin.stepLog[i].step = step}

\* C11: a run of the main chain that returns has invoked the destination
\* step first, on the run's inputs, and then the restaurant step and the
\* attractions step once each, both on the city the destination step
\* decoded; the record returned holds destino_info, which is what the
\* destination step decoded, and sugestoes, whose entries are exactly
\* restaurantes and passeios_culturais.
C11_ItineraryRun ==
    (script \in ItineraryScripts /\ itin.resultado.kind = "dict") =>
        /\ Len(itin.stepLog) = 3
        /\ itin.stepLog[1] = [step |-> "destino",
                              input |-> <<"interesse", itin.inputs>>]
        /\ \A s \in SubSteps :
              \E i \in 2 .. 3 :
                  itin.stepLog[i] = [step |-> s,
                                     input |-> <<"cidade", itin.destino.cidade>>]
        /\ itin.destino.kind = "dict"
        /\ itin.destino.cidade # AbsentCidade
        /\ {"destino_info", "sugestoes"} \subseteq itin.resultado.keys
        /\ itin.resultado.destino_info = itin.destino
        /\ DOMAIN itin.resultado.sugestoes = {"restaurantes", "passeios_culturais"}

\* run_main has returned the record for Paraty with a suggestion of each
\* sub-chain.
C11_Witness ==
    /\ script = "roteiro_viagem"
    /\ itin.resultado.kind = "dict"
    /\ itin.destino.cidade = "Paraty"
    /\ Len(itin.resultado.sugestoes["restaurantes"]) = 1
    /\ Len(itin.resultado.sugestoes["passeios_culturais"]) = 1
    /\ ~failed

\* C16: in run_main, once the city is there, the run returns a record
\* whatever the two sub-chains do: a sub-chain that raised has the empty
\* list as its entry, the other one has been called all the same and its
\* entry is what it returned, and destino_info is the destination as decoded.
C16_SubchainFallback ==
    script = "roteiro_viagem" =>
        /\ (pc \in {"format", "end"} /\ CallsOf("restaurantes") # {}) =>
               itin.resultado.kind = "dict"
        /\ itin.resultado.kind = "dict" =>
               /\ \A s \in SubSteps :
                     /\ CallsOf(s) # {}
                     /\ itin.stepValue[s].kind = "raised" =>
                            itin.resultado.sugestoes[s] = EmptyList
                     /\ itin.stepValue[s].kind = "value" =>
                            itin.resultado.sugestoes[s] = itin.stepValue[s].items
               /\ itin.resultado.destino_info = itin.destino
               /\ itin.resultado.destino_info.cidade = itin.cidade

\* The restaurant step raised, the attractions step returned a suggestion,
\* and run_main returned with an empty list for the restaurants.
C16_Witness ==
    /\ script = "roteiro_viagem"
    /\ itin.resultado.kind = "dict"
    /\ itin.stepValue["restaurantes"].kind = "raised"
    /\ itin.resultado.sugestoes["restaurantes"] = <<>>
    /\ Len(itin.resultado.sugestoes["passeios_culturais"]) = 1
    /\ itin.resultado.destino_info.cidade = "Manaus"

\* C17: in run_main, a destination step that raises ends the run with
\* RuntimeError and a destination without a non-empty cidade ends it with
\* ValueError; in both cases neither sub-chain has been called.  Conversely
\* the sub-chains are only ever called with a non-empty city.
C17_DestinationFailure ==
    script = "roteiro_viagem" =>
        /\ (Len(itin.stepLog) = 1 /\ pc # "restaurantes") =>
               /\ itin.resultado.kind = "raised"
               /\ itin.resultado.error =
                      (IF failed THEN "RuntimeError" ELSE "ValueError")
               /\ ~failed => ~Truthy(get_cidade(itin.destino))
        /\ itin.resultado.kind = "raised" =>
               /\ itin.resultado.error \in {"RuntimeError", "ValueError"}
               /\ \A s \in SubSteps : CallsOf(s) = {}
               /\ calls = 1
        /\ \A i \in 1 .. Len(itin.stepLog) :
               itin.stepLog[i].step \in SubSteps =>
                   Truthy(itin.stepLog[i].input[2])

\* The destination step returned JSON without a cidade and run_main ended
\* with ValueError before any sub-chain was called.
C17_Witness ==
    /\ script = "roteiro_viagem"
    /\ itin.resultado.kind = "raised"
    /\ itin.resultado.error = "ValueError"
    /\ itin.destino.cidade = AbsentCidade
    /\ Len(itin.stepLog) = 1

(***************************************************************************)
(* Routing in the string processor.                                        *)
(***************************************************************************)
\* C12 as stated: the graph's entry point is the router function, so that
\* when main, its settings loaded, is over, its case for 'reverse' has run reverse_node alone and
\* ended with user_string reversed as processed_string, and its case for
\* 'upper' has run upper_node alone and ended with user_string in upper case.
C12_RouterRoutes ==
    (script = "lg_router_exercise" /\ rt.settings /\ pc = "end") =>
        /\ rt.error = ""
        /\ visits[router(test_cases[1].action_type)] = 1
        /\ visits[router(test_cases[2].action_type)] = 1
        /\ rt.results = <<reverse_node(test_cases[1].user_string),
                          upper_node(test_cases[2].user_string)>>

\* C13 as stated: with the settings loaded, main's case with action_type
\* 'invalid_action' is rejected
\* by State.model_validate before the graph is invoked, counted as a
\* validation failure, and main goes on to its end.
C13_InvalidActionCounted ==
    (script = "lg_router_exercise" /\ rt.settings /\ pc = "end") =>
        /\ rt.fail_count = 1
        /\ outcome = "done"


(***************************************************************************)
(* The refinement loop of the research agent.                              *)
(***************************************************************************)
\* C14: in any run of the research agent, the number of executions of the
\* revision node never exceeds max_iterations (nor does iteration_count, which
\* the draft sets to 1, ever pass the larger of 1 and max_iterations).
C14_RevisionsBounded ==
    script = "research_agent_notebook" =>
        /\ visits["revision"] <= rs.max_iterations
        /\ rs.iteration_count <= Max(1, rs.max_iterations)

\* A run was sent to finalize by the iteration limit alone: the confidence is
\* still below the threshold after a revision has been made.
C14_Witness ==
    /\ script = "research_agent_notebook"
    /\ visits["revision"] >= 1
    /\ rs.confidence_score < ReviseThreshold
    /\ rs.iteration_count = rs.max_iterations
    /\ visits["finalize"] = 1
    /\ outcome = "ok"

\* C15 as stated: the confidence_score held in the research agent's state is
\* always within the range 0 to 10.
C15_ConfidenceInRange ==
    script = "research_agent_notebook" =>
        (rs.confidence_score >= 0 /\ rs.confidence_score <= 10)

(***************************************************************************)
(* Loading the chat model.                                                 *)
(***************************************************************************)
\* C18 as stated: create_analytical_model returns None, without raising,
\* whenever the API key cannot be found or loaded, and returns a chat model
\* otherwise.
C18_NoneWithoutKey ==
    (script \in ModelLoaderScripts /\ ld.returned # "unset") =>
        ld.returned = (IF ld.env_file /\ envKey THEN "ChatOpenAI" ELSE "None")

(***************************************************************************)
(* The conversation history.                                               *)
(***************************************************************************)
\* The last n elements of seq, all of it when it has fewer.
LastMessages(seq, n) ==
    IF n >= Len(seq) THEN seq ELSE SubSeq(seq, Len(seq) - n + 1, Len(seq))

\* C19 as stated: get_history(limit) returns exactly the last limit messages
\* of the conversation history in chronological order (the whole history when
\* it holds fewer than limit messages) and does not modify the history.
C19_LastLimitMessages ==
    (hist.called /\ hist.limit >= 0) =>
        /\ hist.returned = LastMessages(hist.before, hist.limit)
        /\ hist.after = hist.before

(***************************************************************************)
(* The configuration test.                                                 *)
(***************************************************************************)
\* C20: test_config returns True when the configuration module imports and
\* its project, model, temperature and max-tokens settings can all be read
\* (it has then printed the four of them), returns False when any of that
\* fails, and never raises.
C20_TestConfigNeverRaises ==
    (script = "test_config" /\ pc = "end") =>
        /\ cfg.returned \in {"True", "False"}
        /\ outcome = "exit"
        /\ cfg.returned = "True" <=>
              /\ cfg.env.module
              /\ envKey /\ cfg.env.langchain_api_key
              /\ cfg.env.temperature \in {"unset", "0.7"}
              /\ cfg.env.max_tokens \in {"unset", "2048"}
        /\ cfg.returned = "True" =>
              (Len(cfg.printed) = 5 /\ cfg.printed[4] \in {"0.3", "0.7"})
        /\ cfg.returned = "False" =>
              cfg.printed[2] \in {"ImportError", "ValidationError"}

\* test_config has returned False because Settings() rejected the
\* environment: the module imports but a required key is missing.
C20_Witness ==
    /\ script = "test_config"
    /\ pc = "end"
    /\ cfg.env.module
    /\ ~cfg.env.langchain_api_key
    /\ cfg.returned = "False"
    /\ cfg.printed = <<"erro", "ValidationError">>

(***************************************************************************)
(* Termination of a run of the research agent.                             *)
(***************************************************************************)
\* C21 as stated: every run of the research agent in which no node raises
\* eventually executes the finalize node exactly once and then ends at END,
\* whatever max_iterations is and whatever the confidence scores are; the
\* research node has then executed once and the reflect node at most
\* max(1, max_iterations) times, so neither loop repeats forever.  A run in
\* which a node raised ends with the error result, the node it stopped at
\* still being the next one.
C21_RunFinalizes ==
    (script = "research_agent_notebook" /\ pc = "graph")
        ~> /\ script = "research_agent_notebook"
           /\ pc = "idle"
           /\ \/ outcome = "sentinel" /\ node \in ResearchNodes
              \/ /\ outcome = "ok"
                 /\ node = "END"
                 /\ visits["finalize"] = 1
                 /\ visits["research"] = 1
                 /\ visits["reflect"] <= Max(1, rs.max_iterations)

====
